---- MODULE Spec2Model ----
(***************************************************************************)
(* Processing manifest and sync orchestrator of drift's CLI.               *)
(*                                                                         *)
(* The manifest functions (addFileEntry, updateFileStatus, needsProcessing,*)
(* getFileEntry) are pure functions over a manifest value; syncFiles is an *)
(* async loop over the files of a directory scan that threads a manifest   *)
(* through them.  The model keeps the manifest, the directory contents,    *)
(* the wall clock and the position and locals of one syncFiles call.       *)
(***************************************************************************)
EXTENDS Integers, Sequences, FiniteSets, TLC

(***************************************************************************)
(* Bounds and input sets.                                                  *)
(***************************************************************************)
\* last value of the wall clock (new Date() reads it)
MaxClock == 1
\* number of calls in a sequence of manifest calls
MaxCalls == 3
\* number of things the caller of SpecCaller does: manifest calls, changes to
\* the input directory, syncFiles runs
MaxEvents == 2
\* number of syncFiles runs
MaxRuns == 2
\* number of changes to the input directory
MaxWrites == 1

\* absolute paths the directory scan can return (pattern **/*.gpx, any case)
Paths == {"a.gpx", "B.GPX"}
\* file contents
Contents == {"x", "y"}
\* a path with no file
NoFile == "<no file>"

\* no Date (processedAt not set)
NoDate == -1
\* JavaScript undefined, for an optional string
Undefined == "<undefined>"
\* error messages a processor reports or throws with
Messages == {"", "boom"}

Statuses == {"pending", "processing", "processed", "error"}

(***************************************************************************)
(* manifest/index.ts                                                       *)
(***************************************************************************)
\* SHA-256 of the file's bytes, hex encoded: one digest per content
calculateChecksum(content) ==
  CASE content = "x" -> "sha(x)"
    [] content = "y" -> "sha(y)"

Checksums == {calculateChecksum(c) : c \in Contents}

\* JavaScript truthiness of an optional string: undefined and "" are falsy
Truthy(s) == s # Undefined /\ s # ""

createManifest(now) == [files |-> <<>>, updatedAt |-> now]

\* manifest.files[filePath], as the set of zero or one entry
getFileEntry(manifest, filePath) ==
  IF filePath \in DOMAIN manifest.files THEN {manifest.files[filePath]} ELSE {}

\* { ...manifest.files, [filePath]: entry }
WithEntry(files, filePath, entry) ==
  [p \in (DOMAIN files) \cup {filePath} |-> IF p = filePath THEN entry ELSE files[p]]

\* addFileEntry that stamps addedAt anew when it resets an entry
addFileEntry_restampsAddedAt(manifest, filePath, checksum, now) ==
  LET fresh == [checksum |-> checksum, status |-> "pending", addedAt |-> now,
                processedAt |-> NoDate, error |-> Undefined]
      entry ==
        IF filePath \in DOMAIN manifest.files
             /\ manifest.files[filePath].checksum = checksum
        THEN manifest.files[filePath]
        ELSE fresh
  IN  [files |-> WithEntry(manifest.files, filePath, entry), updatedAt |-> now]

\* addFileEntry that stores a changed checksum without resetting the entry
addFileEntry_keepsStatus(manifest, filePath, checksum, now) ==
  LET entry ==
        IF filePath \in DOMAIN manifest.files
        THEN [manifest.files[filePath] EXCEPT !.checksum = checksum]
        ELSE [checksum |-> checksum, status |-> "pending", addedAt |-> now,
              processedAt |-> NoDate, error |-> Undefined]
  IN  [files |-> WithEntry(manifest.files, filePath, entry), updatedAt |-> now]

addFileEntry(manifest, filePath, checksum, now) ==
  LET entry ==
        IF filePath \in DOMAIN manifest.files
        THEN LET existing == manifest.files[filePath]
             IN  IF existing.checksum = checksum
                 THEN existing
                 ELSE [checksum |-> checksum, status |-> "pending",
                       addedAt |-> existing.addedAt,
                       processedAt |-> NoDate, error |-> Undefined]
        ELSE [checksum |-> checksum, status |-> "pending", addedAt |-> now,
              processedAt |-> NoDate, error |-> Undefined]
  IN  [files |-> WithEntry(manifest.files, filePath, entry), updatedAt |-> now]

\* updatedEntry without the "clear error if status is not error" step
updatedEntry_keepsError(existing, status, error, now) ==
  [existing EXCEPT
     !.status = status,
     !.processedAt = IF status = "processed" THEN now ELSE @,
     !.error = IF status = "error" /\ Truthy(error) THEN error ELSE @]

\* the entry updateFileStatus builds from the existing one
updatedEntry(existing, status, error, now) ==
  LET spread == [existing EXCEPT
                   !.status = status,
                   !.processedAt = IF status = "processed" THEN now ELSE @,
                   !.error = IF status = "error" /\ Truthy(error) THEN error ELSE @]
  IN  IF status # "error" THEN [spread EXCEPT !.error = Undefined] ELSE spread

\* a call that threw, a call that returned a manifest
Thrown == [threw |-> TRUE]
Returned(m) == [threw |-> FALSE, manifest |-> m]

\* updateFileStatus that inserts an entry for an unknown path instead of throwing
updateFileStatus_upsert(manifest, filePath, status, error, now) ==
  LET existing ==
        IF filePath \in DOMAIN manifest.files THEN manifest.files[filePath]
        ELSE [checksum |-> "", status |-> "pending", addedAt |-> now,
              processedAt |-> NoDate, error |-> Undefined]
  IN  Returned([files |-> WithEntry(manifest.files, filePath,
                            updatedEntry(existing, status, error, now)),
                updatedAt |-> now])

updateFileStatus(manifest, filePath, status, error, now) ==
  IF filePath \notin DOMAIN manifest.files
  THEN Thrown
  ELSE Returned([files |-> WithEntry(manifest.files, filePath,
                              updatedEntry(manifest.files[filePath], status, error, now)),
                 updatedAt |-> now])

\* needsProcessing without the status test
needsProcessing_ignoresStatus(manifest, filePath, checksum) ==
  IF filePath \notin DOMAIN manifest.files THEN TRUE
  ELSE manifest.files[filePath].checksum # checksum

needsProcessing(manifest, filePath, checksum) ==
  IF filePath \notin DOMAIN manifest.files THEN TRUE
  ELSE IF manifest.files[filePath].checksum # checksum THEN TRUE
  ELSE IF manifest.files[filePath].status # "processed" THEN TRUE
  ELSE FALSE

(***************************************************************************)
(* State.                                                                  *)
(***************************************************************************)
VARIABLES
  disk,          \* path -> content of the file, or NoFile
  now,           \* the wall clock
  manifest,      \* the manifest value the caller holds / syncFiles threads
  pc,            \* position of the syncFiles call
  files,         \* syncFiles: result of scanDirectory
  idx,           \* syncFiles: position of the for loop in files
  checksum,      \* syncFiles: local checksum
  existingEntry, \* syncFiles: local existingEntry (zero or one entry)
  result,        \* syncFiles: the SyncResult being built
  lastCall,      \* the caller's last direct manifest call and what it saw
  nCalls,        \* direct manifest calls so far
  nRuns,         \* syncFiles runs so far
  nWrites,       \* changes to the input directory so far
  hist           \* observation of the run: processor calls, entries as reached

\* the watcher that createWatcher returns
VARIABLES
  watcher,       \* the chokidar subscription: starting, open, closing, closed
  processing,    \* createWatcher: the Set processing
  outstanding,   \* path -> processor calls awaited by handleFile
  emits,         \* events the last step emitted on the handle's emitter
  watchCall,     \* the last callback that ran and what it saw
  nNotes         \* callbacks chokidar has made so far

\* one call of a pure function of the pipeline
VARIABLES
  args,          \* the arguments of the call
  ret,           \* what it returned, or NotCalled
  loop           \* douglasPeuckerIterative: the locals stack and keep

manifestVars == <<disk, now, manifest, pc, files, idx, checksum, existingEntry,
                  result, lastCall, nCalls, nRuns, nWrites, hist>>

watchVars == <<watcher, processing, outstanding, emits, watchCall, nNotes>>

fnVars == <<args, ret, loop>>

vars == <<manifestVars, watchVars, fnVars>>

syncVars == <<pc, files, idx, checksum, existingEntry, result>>

NoCall == [op |-> "none"]

\* paths chokidar can report: the track files and one file of another kind
WatchPaths == Paths \cup {"notes.txt"}

NoWatchCall == [op |-> "none", thrown |-> {}]

\* createWatcher has returned: nothing is in flight, nothing was emitted
WatchIdle ==
  /\ watcher = "starting"
  /\ processing = {}
  /\ outstanding = [p \in WatchPaths |-> 0]
  /\ emits = <<>>
  /\ watchCall = NoWatchCall
  /\ nNotes = 0

NotCalled == [called |-> FALSE]
\* the call has returned v
Value(v) == [called |-> TRUE, value |-> v]

\* no pure function has been called
\* douglasPeuckerIterative is not running
NoLoop == [stack |-> <<>>, keep |-> <<>>]

FnIdle ==
  /\ args = [fn |-> "none"]
  /\ ret = NotCalled
  /\ loop = NoLoop

\* the SyncResult literal syncFiles starts from
newResult(total) ==
  [total |-> total, processed |-> 0, skipped |-> 0, errors |-> 0,
   newFiles |-> 0, modified |-> 0, errorFiles |-> <<>>,
   manifest |-> createManifest(0)]

\* syncFiles: the path the for loop is at
filePath == files[idx]
\* syncFiles: local isNew
isNew == existingEntry = {}
\* syncFiles: local isModified
isModified == \E e \in existingEntry : e.checksum # checksum

NoHist ==
  [calls |-> [p \in Paths |-> 0],   \* processor invocations per path, this run
   reached |-> <<>>,                \* path -> entry and checksum seen at line 346
   outcome |-> [kind |-> "none"],   \* how the last processor call settled
   repeat |-> FALSE,                \* this run repeats the previous one
   prevFailed |-> {},               \* paths whose call failed in the previous run
   failed |-> {},                   \* paths whose call failed in the run that returned
   stable |-> FALSE]                \* nothing changed since the last run returned

InitRest ==
  /\ now = 0
  /\ manifest = createManifest(0)
  /\ pc = "idle"
  /\ files = <<>>
  /\ idx = 1
  /\ checksum = Undefined
  /\ existingEntry = {}
  /\ result = newResult(0)
  /\ lastCall = NoCall
  /\ nCalls = 0
  /\ nRuns = 0
  /\ nWrites = 0
  /\ hist = NoHist

\* no file in the input directory, no manifest call made
ManifestIdle == InitRest /\ disk = [p \in Paths |-> NoFile]

Init ==
  /\ InitRest
  /\ disk \in [Paths -> Contents \cup {NoFile}]
  /\ WatchIdle
  /\ FnIdle

Quiescent == pc \in {"idle", "returned"}

\* the caller drops the previous SyncResult and the run's locals
Forget ==
  /\ pc' = "idle"
  /\ files' = <<>>
  /\ idx' = 1
  /\ checksum' = Undefined
  /\ existingEntry' = {}
  /\ result' = newResult(0)

(***************************************************************************)
(* The environment: the file system, the clock, the caller.                *)
(***************************************************************************)
Touched == [NoHist EXCEPT !.stable = FALSE]

WriteFile(p, c) ==
  /\ Quiescent
  /\ disk[p] # c
  /\ nWrites' = nWrites + 1
  /\ disk' = [disk EXCEPT ![p] = c]
  /\ Forget
  /\ lastCall' = NoCall
  /\ hist' = Touched
  /\ UNCHANGED <<now, manifest, nCalls, nRuns>>
  /\ UNCHANGED <<watchVars, fnVars>>

DeleteFile(p) ==
  /\ Quiescent
  /\ disk[p] # NoFile
  /\ nWrites' = nWrites + 1
  /\ disk' = [disk EXCEPT ![p] = NoFile]
  /\ Forget
  /\ lastCall' = NoCall
  /\ hist' = Touched
  /\ UNCHANGED <<now, manifest, nCalls, nRuns>>
  /\ UNCHANGED <<watchVars, fnVars>>

\* time passes while the caller is between calls (the Dates of one syncFiles
\* run are all taken at the same reading of the clock)
Tick ==
  /\ Quiescent
  /\ now < MaxClock
  /\ now' = now + 1
  /\ UNCHANGED <<disk, manifest, syncVars, lastCall, nCalls, nRuns, nWrites, hist>>
  /\ UNCHANGED <<watchVars, fnVars>>

\* the caller calls addFileEntry on the manifest it holds
CallAddFileEntry(p, c) ==
  /\ Quiescent
  /\ manifest' = addFileEntry(manifest, p, c, now)
  /\ lastCall' = [op |-> "addFileEntry", path |-> p, checksum |-> c,
                  before |-> getFileEntry(manifest, p)]
  /\ nCalls' = nCalls + 1
  /\ Forget
  /\ hist' = Touched
  /\ UNCHANGED <<disk, now, nRuns, nWrites>>
  /\ UNCHANGED <<watchVars, fnVars>>

\* the caller calls updateFileStatus on the manifest it holds
CallUpdateFileStatus(p, s, e) ==
  /\ Quiescent
  /\ LET call == updateFileStatus(manifest, p, s, e, now)
     IN  /\ manifest' = IF call.threw THEN manifest ELSE call.manifest
         /\ lastCall' = [op |-> "updateFileStatus", path |-> p, status |-> s,
                         error |-> e, before |-> getFileEntry(manifest, p),
                         threw |-> call.threw]
  /\ nCalls' = nCalls + 1
  /\ Forget
  /\ hist' = Touched
  /\ UNCHANGED <<disk, now, nRuns, nWrites>>
  /\ UNCHANGED <<watchVars, fnVars>>

\* the caller calls needsProcessing on the manifest it holds
CallNeedsProcessing(p, c) ==
  /\ Quiescent
  /\ lastCall' = [op |-> "needsProcessing", path |-> p, checksum |-> c,
                  returned |-> needsProcessing(manifest, p, c)]
  /\ UNCHANGED <<disk, now, manifest, syncVars, nCalls, nRuns, nWrites, hist>>
  /\ UNCHANGED <<watchVars, fnVars>>

(***************************************************************************)
(* commands/tag.ts: scanDirectory and syncFiles                            *)
(***************************************************************************)
\* the files fast-glob finds under the input directory
scanDirectory(d) == {p \in Paths : d[p] # NoFile}

\* the orders in which a scan may list a set of paths
Orders(S) ==
  {f \in [1..Cardinality(S) -> S] : \A i, j \in 1..Cardinality(S) : f[i] = f[j] => i = j}

\* what a processor call settles with: a result, or a thrown error
Outcomes ==
  {[kind |-> "ok"]}
    \cup {[kind |-> "fail", error |-> e] : e \in Messages \cup {Undefined}}
    \cup {[kind |-> "throw", message |-> m] : m \in Messages}

\* lines 322-338: scan and the initial result
SyncStart ==
  /\ Quiescent
  /\ nRuns' = nRuns + 1
  /\ \E order \in Orders(scanDirectory(disk)) : files' = order
  /\ idx' = 1
  /\ checksum' = Undefined
  /\ existingEntry' = {}
  /\ result' = [newResult(Cardinality(scanDirectory(disk))) EXCEPT !.manifest = manifest]
  /\ pc' = "loop"
  /\ lastCall' = NoCall
  /\ hist' = [NoHist EXCEPT !.repeat = hist.stable,
                            !.prevFailed = IF hist.stable THEN hist.failed ELSE {}]
  /\ UNCHANGED <<disk, now, manifest, nCalls, nWrites>>
  /\ UNCHANGED <<watchVars, fnVars>>

\* a loop head that counts an unchanged file as skipped and processes it anyway
LoopHead_noContinue ==
  /\ pc = "loop"
  /\ idx <= Len(files)
  /\ LET sum == calculateChecksum(disk[filePath])
     IN  /\ checksum' = sum
         /\ existingEntry' = getFileEntry(manifest, filePath)
         /\ hist' = [hist EXCEPT
                       !.reached = WithEntry(@, filePath,
                                     [entry |-> getFileEntry(manifest, filePath),
                                      checksum |-> sum]),
                       !.outcome = [kind |-> "none"]]
         /\ result' = [result EXCEPT
                         !.skipped = IF needsProcessing(manifest, filePath, sum)
                                     THEN @ ELSE @ + 1]
         /\ pc' = "add"
         /\ UNCHANGED idx
  /\ UNCHANGED <<disk, now, manifest, files, lastCall, nCalls, nRuns, nWrites>>
  /\ UNCHANGED <<watchVars, fnVars>>

\* lines 341-354: checksum, existing entry, the needsProcessing test
LoopHead ==
  /\ pc = "loop"
  /\ idx <= Len(files)
  /\ LET sum == calculateChecksum(disk[filePath])
     IN  /\ checksum' = sum
         /\ existingEntry' = getFileEntry(manifest, filePath)
         /\ hist' = [hist EXCEPT
                       !.reached = WithEntry(@, filePath,
                                     [entry |-> getFileEntry(manifest, filePath),
                                      checksum |-> sum]),
                       !.outcome = [kind |-> "none"]]
         /\ IF ~needsProcessing(manifest, filePath, sum)
            THEN /\ result' = [result EXCEPT !.skipped = @ + 1]
                 /\ idx' = idx + 1
                 /\ pc' = "loop"
            ELSE /\ pc' = "add"
                 /\ UNCHANGED <<result, idx>>
  /\ UNCHANGED <<disk, now, manifest, files, lastCall, nCalls, nRuns, nWrites>>
  /\ UNCHANGED <<watchVars, fnVars>>

\* a loop that adds an entry only for a path the manifest does not know
AddEntry_ifAbsent ==
  /\ pc = "add"
  /\ manifest' = IF filePath \in DOMAIN manifest.files THEN manifest
                 ELSE addFileEntry(manifest, filePath, checksum, now)
  /\ pc' = "mark"
  /\ UNCHANGED <<disk, now, files, idx, checksum, existingEntry, result,
                 lastCall, nCalls, nRuns, nWrites, hist>>
  /\ UNCHANGED <<watchVars, fnVars>>

\* line 357
AddEntry ==
  /\ pc = "add"
  /\ manifest' = addFileEntry(manifest, filePath, checksum, now)
  /\ pc' = "mark"
  /\ UNCHANGED <<disk, now, files, idx, checksum, existingEntry, result,
                 lastCall, nCalls, nRuns, nWrites, hist>>
  /\ UNCHANGED <<watchVars, fnVars>>

\* a loop that calls the processor without marking the entry as processing
MarkProcessing_noMark ==
  /\ pc = "mark"
  /\ hist' = [hist EXCEPT !.calls[filePath] = @ + 1]
  /\ pc' = "await"
  /\ UNCHANGED <<disk, now, manifest, files, idx, checksum, existingEntry, result,
                 lastCall, nCalls, nRuns, nWrites>>
  /\ UNCHANGED <<watchVars, fnVars>>

\* lines 360-364: mark as processing (the entry exists since line 357, so
\* updateFileStatus returns) and call the processor
MarkProcessing ==
  /\ pc = "mark"
  /\ manifest' = updateFileStatus(manifest, filePath, "processing", Undefined, now).manifest
  /\ hist' = [hist EXCEPT !.calls[filePath] = @ + 1]
  /\ pc' = "await"
  /\ UNCHANGED <<disk, now, files, idx, checksum, existingEntry, result,
                 lastCall, nCalls, nRuns, nWrites>>
  /\ UNCHANGED <<watchVars, fnVars>>

\* errorOf with || in place of ??: an empty reported message becomes the default
errorOf_orDefault(outcome) ==
  IF outcome.kind = "fail"
  THEN IF outcome.error \in {Undefined, ""} THEN "Unknown error" ELSE outcome.error
  ELSE outcome.message

\* the message syncFiles records for a call that did not succeed
errorOf(outcome) ==
  IF outcome.kind = "fail"
  THEN IF outcome.error = Undefined THEN "Unknown error" ELSE outcome.error
  ELSE outcome.message

\* a success branch that tallies the file but leaves its entry as it is
onSuccess_noStatus ==
  /\ manifest' = manifest
  /\ result' = [result EXCEPT
                  !.processed = @ + 1,
                  !.newFiles = IF isNew THEN @ + 1 ELSE @,
                  !.modified = IF ~isNew /\ isModified THEN @ + 1 ELSE @]

\* lines 366-375: the processor reported success
onSuccess ==
  /\ manifest' = updateFileStatus(manifest, filePath, "processed", Undefined, now).manifest
  /\ result' = [result EXCEPT
                  !.processed = @ + 1,
                  !.newFiles = IF isNew THEN @ + 1 ELSE @,
                  !.modified = IF ~isNew /\ isModified THEN @ + 1 ELSE @]

\* a failure branch that tallies the file but leaves its entry as it is
onFailure_noStatus(error) ==
  /\ manifest' = manifest
  /\ result' = [result EXCEPT
                  !.errors = @ + 1,
                  !.errorFiles = Append(@, [path |-> filePath, error |-> error])]

\* a failure branch that counts the error without listing the file
onFailure_noPush(error) ==
  /\ manifest' = updateFileStatus(manifest, filePath, "error", error, now).manifest
  /\ result' = [result EXCEPT !.errors = @ + 1]

\* lines 376-389: the processor reported failure, or threw
onFailure(error) ==
  /\ manifest' = updateFileStatus(manifest, filePath, "error", error, now).manifest
  /\ result' = [result EXCEPT
                  !.errors = @ + 1,
                  !.errorFiles = Append(@, [path |-> filePath, error |-> error])]

\* lines 364-390: the processor call settles, the loop moves on
ProcessorSettles(outcome) ==
  /\ pc = "await"
  /\ IF outcome.kind = "ok" THEN onSuccess ELSE onFailure(errorOf(outcome))
  /\ hist' = [hist EXCEPT !.outcome = outcome]
  /\ idx' = idx + 1
  /\ pc' = "loop"
  /\ UNCHANGED <<disk, now, files, checksum, existingEntry, lastCall, nCalls, nRuns, nWrites>>
  /\ UNCHANGED <<watchVars, fnVars>>

\* lines 392-393
SyncReturn ==
  /\ pc = "loop"
  /\ idx > Len(files)
  /\ result' = [result EXCEPT !.manifest = manifest]
  /\ pc' = "returned"
  /\ hist' = [hist EXCEPT
                !.outcome = [kind |-> "none"],
                !.stable = TRUE,
                !.failed = {result.errorFiles[i].path : i \in 1..Len(result.errorFiles)}]
  /\ UNCHANGED <<disk, now, manifest, files, idx, checksum, existingEntry,
                 lastCall, nCalls, nRuns, nWrites>>
  /\ UNCHANGED <<watchVars, fnVars>>

\* the directory changes at most MaxWrites times, syncFiles runs MaxRuns times
MayWrite == nWrites < MaxWrites
MayRun == nRuns < MaxRuns

Next ==
  \/ \E p \in Paths, c \in Contents : MayWrite /\ WriteFile(p, c)
  \/ \E p \in Paths : MayWrite /\ DeleteFile(p)
  \/ Tick
  \/ MayRun /\ SyncStart
  \/ LoopHead
  \/ AddEntry
  \/ MarkProcessing
  \/ \E o \in Outcomes : ProcessorSettles(o)
  \/ SyncReturn

\* syncFiles runs over a directory that changes between runs
Spec == Init /\ [][Next]_vars

(***************************************************************************)
(* The manifest functions alone, called in any order with any arguments.   *)
(***************************************************************************)
ErrorArgs == Messages \cup {Undefined}

InitManifest == ManifestIdle /\ WatchIdle /\ FnIdle

\* a sequence of at most MaxCalls calls that build a manifest
MayCall == nCalls < MaxCalls

NextManifest ==
  \/ \E p \in Paths, c \in Checksums : MayCall /\ CallAddFileEntry(p, c)
  \/ \E p \in Paths, s \in Statuses, e \in ErrorArgs :
         MayCall /\ CallUpdateFileStatus(p, s, e)
  \/ \E p \in Paths, c \in Checksums : CallNeedsProcessing(p, c)
  \/ Tick

SpecManifest == InitManifest /\ [][NextManifest]_vars

(***************************************************************************)
(* syncFiles runs with a caller that also edits the manifest between runs. *)
(***************************************************************************)
InitCaller ==
  /\ InitRest
  /\ disk \in {d \in [Paths -> {"x", NoFile}] : d["a.gpx"] = "x"}
  /\ WatchIdle
  /\ FnIdle

\* the caller does at most MaxEvents things
MayAct == nCalls + nWrites + nRuns < MaxEvents

NextCaller ==
  \/ \E p \in Paths, c \in Contents : MayAct /\ WriteFile(p, c)
  \/ \E p \in Paths : MayAct /\ DeleteFile(p)
  \/ Tick
  \/ \E p \in Paths, c \in Checksums : MayAct /\ CallAddFileEntry(p, c)
  \/ \E p \in Paths, s \in Statuses, e \in ErrorArgs :
         MayAct /\ CallUpdateFileStatus(p, s, e)
  \/ MayAct /\ SyncStart
  \/ LoopHead
  \/ AddEntry
  \/ MarkProcessing
  \/ \E o \in Outcomes : ProcessorSettles(o)
  \/ SyncReturn

SpecCaller == InitCaller /\ [][NextCaller]_vars

(***************************************************************************)
(* Properties of the manifest functions (checked under SpecManifest).      *)
(***************************************************************************)
\* the entry the last call was about, as the manifest now holds it
calledEntry == manifest.files[lastCall.path]

\* C3: needsProcessing(manifest, path, checksum) returns false if and only if
\* the manifest holds an entry for path whose checksum equals the given one
\* and whose status is processed; in every other case it returns true.
C3_NeedsProcessingFalseIffProcessedSameChecksum ==
  lastCall.op = "needsProcessing" =>
    /\ lastCall.returned \in BOOLEAN
    /\ (~lastCall.returned) <=>
          /\ lastCall.path \in DOMAIN manifest.files
          /\ calledEntry.checksum = lastCall.checksum
          /\ calledEntry.status = "processed"

\* C3 witness: needsProcessing returned true for an entry with the same
\* checksum whose status is error
C3_Witness ==
  /\ lastCall.op = "needsProcessing"
  /\ lastCall.returned
  /\ lastCall.path \in DOMAIN manifest.files
  /\ calledEntry.checksum = lastCall.checksum
  /\ calledEntry.status = "error"

\* C4: addFileEntry resets an existing entry exactly when the checksum
\* differs: then the entry is pending with the new checksum, whatever its
\* status was, and needsProcessing is true for it; with the same checksum the
\* entry is untouched; an unknown path is inserted as pending.
C4_AddFileEntryResetsIffChecksumDiffers ==
  lastCall.op = "addFileEntry" =>
    /\ lastCall.path \in DOMAIN manifest.files
    /\ \A b \in lastCall.before :
          IF b.checksum = lastCall.checksum
          THEN calledEntry = b
          ELSE /\ calledEntry.status = "pending"
               /\ calledEntry.checksum = lastCall.checksum
               /\ needsProcessing(manifest, lastCall.path, lastCall.checksum)
    /\ lastCall.before = {} =>
          /\ calledEntry.status = "pending"
          /\ calledEntry.checksum = lastCall.checksum

\* C4 witness: addFileEntry with a new checksum on an entry that was processing
C4_Witness ==
  /\ lastCall.op = "addFileEntry"
  /\ \E b \in lastCall.before :
        b.status = "processing" /\ b.checksum # lastCall.checksum
  /\ calledEntry.status = "pending"

\* C9 as stated: after updateFileStatus(path, status, error) the error field
\* is present exactly when the new status is error, and then holds the
\* message passed to the call.
C9_ErrorPresentIffStatusError ==
  (lastCall.op = "updateFileStatus" /\ ~lastCall.threw) =>
    /\ (calledEntry.error # Undefined) <=> (lastCall.status = "error")
    /\ lastCall.status = "error" => calledEntry.error = lastCall.error

\* C9 amended: after updateFileStatus the error field is absent whenever the
\* new status is not error; with status error and a non-empty message it
\* holds that message; with status error and no message, or an empty one,
\* the field is left as it was.
C9_ErrorStoredOrCleared ==
  (lastCall.op = "updateFileStatus" /\ ~lastCall.threw) =>
    \A b \in lastCall.before :
      /\ lastCall.status # "error" => calledEntry.error = Undefined
      /\ (lastCall.status = "error" /\ lastCall.error \notin {Undefined, ""})
            => calledEntry.error = lastCall.error
      /\ (lastCall.status = "error" /\ lastCall.error \in {Undefined, ""})
            => calledEntry.error = b.error

\* C9 witness: a transition to processed removed a stored message
C9_Witness ==
  /\ lastCall.op = "updateFileStatus"
  /\ ~lastCall.threw
  /\ lastCall.status = "processed"
  /\ \E b \in lastCall.before : b.error = "boom"
  /\ calledEntry.error = Undefined

\* C10: updateFileStatus on a path without an entry throws: no entry is
\* created and the manifest passed in is unchanged.
C10_UpdateUnknownPathThrows ==
  [][(lastCall'.op = "updateFileStatus" /\ lastCall'.before = {})
       => /\ lastCall'.threw
          /\ manifest' = manifest
          /\ lastCall'.path \notin DOMAIN manifest'.files]_vars

\* C10 witness: updateFileStatus threw on an unknown path while the manifest
\* holds an entry for another path
C10_Witness ==
  /\ lastCall.op = "updateFileStatus"
  /\ lastCall.threw
  /\ lastCall.path \notin DOMAIN manifest.files
  /\ manifest.files # <<>>


(***************************************************************************)
(* Properties of syncFiles (checked under Spec, C7 under SpecCaller).      *)
(***************************************************************************)
\* the paths of the scan in progress or just returned
scanned == {files[i] : i \in 1..Len(files)}

\* a step of a syncFiles call starts in one of these positions
InRun == pc \in {"loop", "add", "mark", "await"}

\* C1 as stated: a second run over an unchanged directory with the manifest
\* the first run returned calls the processor for no file and reports every
\* file as skipped, whatever the processor calls of the first run did.
C1_SecondRunSkipsEverything ==
  (pc = "returned" /\ hist.repeat) =>
    /\ \A p \in Paths : hist.calls[p] = 0
    /\ result.processed = 0
    /\ result.errors = 0
    /\ result.skipped = result.total

\* C1 amended: the second run calls the processor exactly for the files whose
\* processor call failed in the first run and skips every other file; when
\* no call of the first run failed it processes nothing and skips all.
C1_SecondRunRetriesOnlyFailures ==
  (pc = "returned" /\ hist.repeat) =>
    /\ \A p \in Paths :
          hist.calls[p] = IF p \in hist.prevFailed \cap scanned THEN 1 ELSE 0
    /\ result.processed + result.errors = Cardinality(hist.prevFailed)
    /\ result.skipped = result.total - Cardinality(hist.prevFailed)
    /\ hist.prevFailed = {} =>
          /\ result.processed = 0
          /\ result.errors = 0
          /\ result.skipped = result.total

\* C1 witness: a second run over two unchanged files skipped both
C1_Witness ==
  /\ pc = "returned"
  /\ hist.repeat
  /\ result.total = 2
  /\ result.skipped = 2

\* the needsProcessing condition of the claims, on what a file's loop turn saw
neededWhenReached(f) ==
  ~ \E e \in hist.reached[f].entry :
       e.checksum = hist.reached[f].checksum /\ e.status = "processed"

\* C2: the processor is called exactly once for a scanned file that needs
\* processing when the loop reaches it and not at all otherwise; a file that
\* does not need it is counted as skipped and its entry stays as it was; no
\* path is passed to the processor twice in one run.
C2_ProcessorCalledOnceIffNeeded ==
  /\ \A p \in Paths : hist.calls[p] <= 1
  /\ \A p \in Paths \ DOMAIN hist.reached : hist.calls[p] = 0
  /\ pc \in {"loop", "returned"} =>
        /\ \A f \in DOMAIN hist.reached :
              /\ hist.calls[f] = IF neededWhenReached(f) THEN 1 ELSE 0
              /\ ~neededWhenReached(f) =>
                    getFileEntry(manifest, f) = hist.reached[f].entry
        /\ result.skipped =
              Cardinality({f \in DOMAIN hist.reached : ~neededWhenReached(f)})

\* C2 witness: a run returned after skipping one file and processing the other
C2_Witness ==
  /\ pc = "returned"
  /\ result.skipped = 1
  /\ \E f \in scanned : hist.calls[f] = 1
  /\ \E f \in scanned : hist.calls[f] = 0

\* the message of a processor call that threw or reported failure with one
failureMessage(outcome) ==
  IF outcome.kind = "fail" THEN outcome.error ELSE outcome.message

\* the step in which a processor call settles with a failure carrying a message
FailureStep ==
  /\ pc = "await"
  /\ pc' = "loop"
  /\ hist'.outcome.kind \in {"fail", "throw"}
  /\ failureMessage(hist'.outcome) # Undefined

\* what C5 says of such a step, but for the stored error field
FailureRecorded(m) ==
  /\ manifest'.files[filePath].status = "error"
  /\ result'.errors = result.errors + 1
  /\ result'.errorFiles = Append(result.errorFiles, [path |-> filePath, error |-> m])
  /\ result'.processed = result.processed
  /\ idx' = idx + 1
  /\ files' = files

\* C5 as stated: a call that throws with message m and a call that returns
\* {success: false, error: m} both leave the entry with status error and
\* error = m, add one to errors, append {path, error: m} to errorFiles, leave
\* processed alone, and the loop goes on.
C5_FailureAndThrowStoreMessage ==
  [][FailureStep =>
       /\ FailureRecorded(failureMessage(hist'.outcome))
       /\ manifest'.files[filePath].error = failureMessage(hist'.outcome)]_vars

\* C5 amended: as stated, except that the entry's error field holds m only
\* when m is not empty; for an empty m the entry has status error and no
\* error field (errorFiles still records the empty message).
C5_FailureAndThrowTreatedAlike ==
  [][FailureStep =>
       LET m == failureMessage(hist'.outcome)
       IN  /\ FailureRecorded(m)
           /\ manifest'.files[filePath].error = IF m = "" THEN Undefined ELSE m]_vars

\* C5 witness: the first file's processor call threw, the loop is at the second
C5_Witness ==
  /\ pc = "loop"
  /\ hist.outcome.kind = "throw"
  /\ idx = 2
  /\ Len(files) = 2
  /\ result.errors = 1
  /\ manifest.files[files[1]].error = "boom"

\* the status of a path in a manifest, "absent" without an entry
statusOf(m, p) == IF p \in DOMAIN m.files THEN m.files[p].status ELSE "absent"

\* C6 as stated: every status change of an entry follows
\* pending -> processing -> (processed | error).
C6_StatusFollowsLifecycle ==
  [][\A p \in Paths :
       LET old == statusOf(manifest, p)
           new == statusOf(manifest', p)
       IN  (InRun /\ new # old) =>
             \/ old = "absent" /\ new = "pending"
             \/ old = "pending" /\ new = "processing"
             \/ old = "processing" /\ new \in {"processed", "error"}]_vars

\* C6 amended: a status change made by syncFiles is the creation of a pending
\* entry, a reset to pending by a changed checksum, pending -> processing,
\* error -> processing (the retry of a failed file whose checksum is
\* unchanged), or processing -> processed | error; no entry reaches processed
\* or error except from processing.
C6_StatusChangesOfSync ==
  [][\A p \in Paths :
       LET old == statusOf(manifest, p)
           new == statusOf(manifest', p)
       IN  (InRun /\ new # old) =>
             \/ old = "absent" /\ new = "pending"
             \/ /\ new = "pending"
                /\ old # "absent"
                /\ manifest'.files[p].checksum # manifest.files[p].checksum
             \/ old = "pending" /\ new = "processing"
             \/ /\ old = "error" /\ new = "processing"
                /\ manifest'.files[p].checksum = manifest.files[p].checksum
             \/ old = "processing" /\ new \in {"processed", "error"}]_vars

\* C6 witness: a failed file with an unchanged checksum is being retried
C6_Witness ==
  /\ pc = "await"
  /\ \E e \in existingEntry : e.status = "error" /\ e.checksum = checksum
  /\ manifest.files[filePath].status = "processing"

\* C7: no addFileEntry, updateFileStatus or syncFiles call removes an entry or
\* changes its addedAt, and syncFiles leaves the entries of paths its scan did
\* not return as they are.
C7_EntriesStay ==
  [][\A p \in DOMAIN manifest.files :
       /\ p \in DOMAIN manifest'.files
       /\ manifest'.files[p].addedAt = manifest.files[p].addedAt
       /\ (InRun /\ p \notin scanned) => manifest'.files[p] = manifest.files[p]]_vars

\* C7 witness: a run that processed a file returned, and the manifest still
\* holds the older entry of a path that the directory scan did not return
C7_Witness ==
  /\ pc = "returned"
  /\ result.processed >= 1
  /\ \E p \in DOMAIN manifest.files :
        /\ disk[p] = NoFile
        /\ p \notin scanned
        /\ manifest.files[p].addedAt < now

\* C8: in every SyncResult processed = newFiles + modified.
C8_ProcessedIsNewPlusModified ==
  result.processed = result.newFiles + result.modified

(***************************************************************************)
(* The watch controller: createWatcher, its handleFile callback and stop.  *)
(* chokidar is an external collaborator: it calls the add/change callback  *)
(* at any time until the subscription is closed, and close() resolves some *)
(* time after it is called.  Listeners of the handle's emitter return      *)
(* normally.                                                               *)
(***************************************************************************)
\* number of callbacks chokidar makes (add, change, error)
MaxNotes == 3

\* String.prototype.toLowerCase, on the paths of the model
toLowerCase(p) == CASE p = "B.GPX" -> "b.gpx" [] OTHER -> p

\* endsWith('.gpx'), on the lower-cased paths of the model
endsWithGpx(s) == s \in {"a.gpx", "b.gpx"}

processedEvent(p, r) == [type |-> "processed", path |-> p, result |-> r]
errorEvent(p, m) == [type |-> "error", path |-> p, message |-> m]
readyEvent == [type |-> "ready"]

Subscribed == watcher \in {"starting", "open", "closing"}

\* a callback ran: what it was, and the state it found
called(op, p) ==
  [op |-> op, path |-> p, thrown |-> watchCall.thrown,
   sub |-> watcher, stopped |-> watcher = "closed",
   inFlight |-> processing, before |-> outstanding]

\* handleFile without the test of lines 95-97
handleFile_noInFlightTest(p) ==
  /\ watchCall' = called("handleFile", p)
  /\ emits' = <<>>
  /\ IF ~endsWithGpx(toLowerCase(p))
       THEN UNCHANGED <<processing, outstanding>>
       ELSE /\ processing' = processing \cup {p}
            /\ outstanding' = [outstanding EXCEPT ![p] = @ + 1]

\* handleFile up to the await of line 107: the two early returns, the add to
\* the in-flight set and the processor call
handleFile(p) ==
  /\ watchCall' = called("handleFile", p)
  /\ emits' = <<>>
  /\ IF p \in processing \/ ~endsWithGpx(toLowerCase(p))
       THEN UNCHANGED <<processing, outstanding>>
       ELSE /\ processing' = processing \cup {p}
            /\ outstanding' = [outstanding EXCEPT ![p] = @ + 1]

\* lines 121-122: chokidar reports an added or changed file
Notify(p) ==
  /\ Subscribed
  /\ nNotes' = nNotes + 1
  /\ handleFile(p)
  /\ UNCHANGED <<watcher, manifestVars, fnVars>>

\* lines 107-111: the event handleFile emits when the processor call settles
settledEvent(p, outcome) ==
  IF outcome.kind = "throw"
    THEN errorEvent(p, outcome.message)
    ELSE processedEvent(p, outcome)

\* handleFile whose finally block is skipped when the processor throws
handleFileResumes_noFinally(p, outcome) ==
  /\ outstanding[p] > 0
  /\ emits' = <<settledEvent(p, outcome)>>
  /\ processing' = IF outcome.kind = "throw" THEN processing ELSE processing \ {p}
  /\ outstanding' = [outstanding EXCEPT ![p] = @ - 1]
  /\ watchCall' = [called("settle", p) EXCEPT
        !.thrown = IF outcome.kind = "throw" THEN @ \cup {p} ELSE @]
        @@ [outcome |-> outcome]
  /\ UNCHANGED <<watcher, nNotes, manifestVars, fnVars>>

\* handleFile that, when the call settles, starts the call again for a
\* notification it turned away just before
handleFileResumes_replays(p, outcome) ==
  /\ outstanding[p] > 0
  /\ emits' = <<settledEvent(p, outcome)>>
  /\ IF watchCall.op = "handleFile" /\ watchCall.path = p
       THEN UNCHANGED <<processing, outstanding>>
       ELSE /\ processing' = processing \ {p}
            /\ outstanding' = [outstanding EXCEPT ![p] = @ - 1]
  /\ watchCall' = [called("settle", p) EXCEPT
        !.thrown = IF outcome.kind = "throw" THEN @ \cup {p} ELSE @]
        @@ [outcome |-> outcome]
  /\ UNCHANGED <<watcher, nNotes, manifestVars, fnVars>>

\* lines 107-114: the processor call of handleFile(p) settles
handleFileResumes(p, outcome) ==
  /\ outstanding[p] > 0
  /\ emits' = <<settledEvent(p, outcome)>>
  /\ processing' = processing \ {p}
  /\ outstanding' = [outstanding EXCEPT ![p] = @ - 1]
  /\ watchCall' = [called("settle", p) EXCEPT
        !.thrown = IF outcome.kind = "throw" THEN @ \cup {p} ELSE @]
        @@ [outcome |-> outcome]
  /\ UNCHANGED <<watcher, nNotes, manifestVars, fnVars>>

\* line 123: chokidar has done its initial scan
WatcherReady ==
  /\ watcher = "starting"
  /\ watcher' = "open"
  /\ emits' = <<readyEvent>>
  /\ watchCall' = called("ready", "")
  /\ UNCHANGED <<processing, outstanding, nNotes, manifestVars, fnVars>>

\* line 124: chokidar reports an error of its own
WatcherError(m) ==
  /\ Subscribed
  /\ nNotes' = nNotes + 1
  /\ emits' = <<errorEvent("", m)>>
  /\ watchCall' = called("watcherError", "")
  /\ UNCHANGED <<watcher, processing, outstanding, manifestVars, fnVars>>

\* lines 129-131: stop() is called; a second call finds the subscription
\* closing or closed and changes nothing
StopCalled ==
  /\ watcher' = IF Subscribed THEN "closing" ELSE watcher
  /\ emits' = <<>>
  /\ watchCall' = called("stop", "")
  /\ UNCHANGED <<processing, outstanding, nNotes, manifestVars, fnVars>>

\* line 130: watcher.close() resolves, and with it the promise of stop()
StopResolves ==
  /\ watcher = "closing"
  /\ watcher' = "closed"
  /\ emits' = <<>>
  /\ watchCall' = called("stopResolved", "")
  /\ UNCHANGED <<processing, outstanding, nNotes, manifestVars, fnVars>>

InitWatch == ManifestIdle /\ WatchIdle /\ FnIdle

MayNotify == nNotes < MaxNotes

NextWatch ==
  \/ \E p \in WatchPaths : MayNotify /\ Notify(p)
  \/ \E p \in WatchPaths, o \in Outcomes : handleFileResumes(p, o)
  \/ WatcherReady
  \/ \E m \in Messages : MayNotify /\ WatcherError(m)
  \/ StopCalled
  \/ StopResolves

SpecWatch == InitWatch /\ [][NextWatch]_vars

(***************************************************************************)
(* Properties of the watch controller.                                     *)
(***************************************************************************)
\* C11: at most one processor call is outstanding per path at any time; a
\* notification for a path whose call is outstanding starts no call, and a
\* notification for a track file with no outstanding call starts one,
\* whatever calls are outstanding for other paths.
C11_OneCallPerPath ==
  /\ \A p \in WatchPaths : outstanding[p] <= 1
  /\ watchCall.op = "handleFile" =>
       LET p == watchCall.path IN
         /\ watchCall.before[p] >= 1 => outstanding = watchCall.before
         /\ (watchCall.before[p] = 0 /\ p \in Paths) =>
               outstanding = [watchCall.before EXCEPT ![p] = 1]

\* C11 witness: a notification arrived for a path whose call is outstanding
\* while the call of another path is outstanding too
C11_Witness ==
  /\ watchCall.op = "handleFile"
  /\ watchCall.before[watchCall.path] = 1
  /\ \E q \in WatchPaths \ {watchCall.path} : outstanding[q] = 1

\* C12: no processed or error event is emitted once the promise of stop()
\* has resolved.
C12_NoEventAfterStopResolved ==
  \A i \in 1..Len(emits) :
    emits[i].type \in {"processed", "error"} => ~watchCall.stopped

C14_ProcessedOnlyOnSuccess ==
  watchCall.op = "settle" =>
    /\ Len(emits) = 1
    /\ emits[1].type = (IF watchCall.outcome.kind = "ok" THEN "processed" ELSE "error")

(***************************************************************************)
(* The track simplifier: simplify3D and douglasPeuckerIterative.           *)
(*                                                                         *)
(* The points of the model lie on the meridian lon = 0, so the x terms of  *)
(* perpendicularDistance3D are 0.  lat and tolerance are counted in steps  *)
(* of 1 / METERS_PER_DEGREE_LAT degree, so that y = lat *                  *)
(* METERS_PER_DEGREE_LAT and toleranceMeters are the integers kept here.   *)
(* Distances are kept as exact squares (a fraction num / den), and two     *)
(* distances are compared by comparing their squares.                      *)
(***************************************************************************)
\* longest point sequence passed to simplify3D
MaxPoints == 4
\* largest tolerance passed to simplify3D
MaxTolerance == 1

Lats == 0..2
Eles == 0..1
ElevationWeights == {1, 2}

Frac(n, d) == [num |-> n, den |-> d]
\* a > b for two fractions with positive denominators
Greater(a, b) == a.num * b.den > b.num * a.den
sq(v) == v * v

\* the square of what perpendicularDistance3D returns
perpendicularDistance3D(point, lineStart, lineEnd, elevationWeight) ==
  LET y1 == lineStart.lat
      z1 == lineStart.ele * elevationWeight
      y2 == lineEnd.lat
      z2 == lineEnd.ele * elevationWeight
      y0 == point.lat
      z0 == point.ele * elevationWeight
      dy == y2 - y1
      dz == z2 - z1
      lineLengthSq == dy * dy + dz * dz
      dot == (y0 - y1) * dy + (z0 - z1) * dz
  IN  IF lineLengthSq = 0 THEN Frac(sq(y0 - y1) + sq(z0 - z1), 1)
      ELSE IF dot <= 0 THEN Frac(sq(y0 - y1) + sq(z0 - z1), 1)           \* t = 0
      ELSE IF dot >= lineLengthSq THEN Frac(sq(y0 - y2) + sq(z0 - z2), 1) \* t = 1
      ELSE Frac((sq(y0 - y1) + sq(z0 - z1)) * lineLengthSq - dot * dot, lineLengthSq)

\* lines 141-154: the for loop that finds the point of maximum distance
RECURSIVE findMax(_, _, _, _, _, _, _)
findMax(points, start, end, elevationWeight, i, maxDist, maxIndex) ==
  IF i >= end THEN [maxDist |-> maxDist, maxIndex |-> maxIndex]
  ELSE LET dist == perpendicularDistance3D(points[i], points[start], points[end],
                                           elevationWeight)
       IN  IF Greater(dist, maxDist)
             THEN findMax(points, start, end, elevationWeight, i + 1, dist, i)
             ELSE findMax(points, start, end, elevationWeight, i + 1, maxDist, maxIndex)

\* keep with only the first point marked
initialKeep_firstOnly(n) == [i \in 1..n |-> i = 1]

\* lines 126-128: the array keep (indices start at 1 in the model)
initialKeep(n) == [i \in 1..n |-> i = 1 \/ i = n]

RECURSIVE whileStack(_, _, _, _, _)
\* a loop that, after a split, pushes only the range left of the split point
whileStack_leftOnly(points, toleranceMeters, elevationWeight, stack, keep) ==
  IF stack = <<>> THEN keep
  ELSE LET range == stack[Len(stack)]
           rest == SubSeq(stack, 1, Len(stack) - 1)
           start == range[1]
           end == range[2]
           m == findMax(points, start, end, elevationWeight, start + 1, Frac(0, 1), start)
       IN  IF end - start <= 1
             THEN whileStack(points, toleranceMeters, elevationWeight, rest, keep)
           ELSE IF Greater(m.maxDist, Frac(sq(toleranceMeters), 1))
             THEN whileStack(points, toleranceMeters, elevationWeight,
                             rest \o << <<start, m.maxIndex>> >>,
                             [keep EXCEPT ![m.maxIndex] = TRUE])
           ELSE whileStack(points, toleranceMeters, elevationWeight, rest, keep)

\* a loop that splits a range when its largest distance is below the tolerance
whileStack_splitsBelow(points, toleranceMeters, elevationWeight, stack, keep) ==
  IF stack = <<>> THEN keep
  ELSE LET range == stack[Len(stack)]
           rest == SubSeq(stack, 1, Len(stack) - 1)
           start == range[1]
           end == range[2]
           m == findMax(points, start, end, elevationWeight, start + 1, Frac(0, 1), start)
       IN  IF end - start <= 1
             THEN whileStack(points, toleranceMeters, elevationWeight, rest, keep)
           ELSE IF Greater(m.maxDist, Frac(0, 1))
                     /\ Greater(Frac(sq(toleranceMeters), 1), m.maxDist)
             THEN whileStack(points, toleranceMeters, elevationWeight,
                             rest \o << <<start, m.maxIndex>>, <<m.maxIndex, end>> >>,
                             [keep EXCEPT ![m.maxIndex] = TRUE])
           ELSE whileStack(points, toleranceMeters, elevationWeight, rest, keep)

\* lines 133-162: the while loop over the stack of ranges
whileStack(points, toleranceMeters, elevationWeight, stack, keep) ==
  IF stack = <<>> THEN keep
  ELSE LET range == stack[Len(stack)]
           rest == SubSeq(stack, 1, Len(stack) - 1)
           start == range[1]
           end == range[2]
           m == findMax(points, start, end, elevationWeight, start + 1, Frac(0, 1), start)
       IN  IF end - start <= 1
             THEN whileStack(points, toleranceMeters, elevationWeight, rest, keep)
           ELSE IF Greater(m.maxDist, Frac(sq(toleranceMeters), 1))
             THEN whileStack(points, toleranceMeters, elevationWeight,
                             rest \o << <<start, m.maxIndex>>, <<m.maxIndex, end>> >>,
                             [keep EXCEPT ![m.maxIndex] = TRUE])
           ELSE whileStack(points, toleranceMeters, elevationWeight, rest, keep)

\* lines 165-170: the kept points, in order
RECURSIVE keptPoints(_, _, _)
keptPoints(points, keep, i) ==
  IF i > Len(points) THEN <<>>
  ELSE (IF keep[i] THEN <<points[i]>> ELSE <<>>) \o keptPoints(points, keep, i + 1)

douglasPeuckerIterative(points, toleranceMeters, elevationWeight) ==
  LET n == Len(points)
  IN  IF n <= 2 THEN points
      ELSE keptPoints(points,
                      whileStack(points, toleranceMeters, elevationWeight,
                                 << <<1, n>> >>, initialKeep(n)),
                      1)

simplify3D(points, tolerance, elevationWeight) ==
  IF Len(points) <= 2 THEN points
  ELSE douglasPeuckerIterative(points, tolerance, elevationWeight)

\* the i-th point of a track: its place, and its own timestamp
TrackPoint(i, place) == [lon |-> 0, lat |-> place[1], ele |-> place[2], time |-> i]

\* the point sequences of up to MaxPoints points
Tracks ==
  UNION {{[i \in 1..n |-> TrackPoint(i, f[i])] : f \in [1..n -> Lats \X Eles]} :
           n \in 0..MaxPoints}

InitSimplify ==
  /\ ManifestIdle
  /\ WatchIdle
  /\ ret = NotCalled
  /\ loop = NoLoop
  /\ args \in [fn : {"simplify3D"}, points : Tracks, tolerance : 0..MaxTolerance,
               elevationWeight : ElevationWeights]

CallSimplify3D ==
  /\ args.fn = "simplify3D"
  /\ ret = NotCalled
  /\ ret' = Value(simplify3D(args.points, args.tolerance, args.elevationWeight))
  /\ UNCHANGED <<args, loop, manifestVars, watchVars>>

NextSimplify == CallSimplify3D

SpecSimplify == InitSimplify /\ [][NextSimplify]_vars

\* C15: simplify3D returns a subsequence of its input, in order and made of
\* the same point values; an input of at most two points is returned
\* unchanged, and a longer one keeps its first and its last point.
C15_SubsequenceWithEnds ==
  (args.fn = "simplify3D" /\ ret.called) =>
    LET points == args.points
        out == ret.value
        n == Len(points)
        k == Len(out)
    IN  /\ \E f \in [1..k -> 1..n] :
              /\ \A i \in 1..k : out[i] = points[f[i]]
              /\ \A i, j \in 1..k : i < j => f[i] < f[j]
        /\ n <= 2 => out = points
        /\ n > 2 => k >= 2 /\ out[1] = points[1] /\ out[k] = points[n]

\* C15 witness: a track of more than two points lost a point in between and
\* kept another
C15_Witness ==
  /\ args.fn = "simplify3D"
  /\ ret.called
  /\ Len(args.points) = 4
  /\ Len(ret.value) = 3

\* C16: with tolerance 0 simplify3D returns all the points of its input.
C16_ZeroToleranceKeepsAll ==
  (args.fn = "simplify3D" /\ ret.called /\ args.tolerance = 0) =>
    Len(ret.value) = Len(args.points)

(***************************************************************************)
(* The segment merger: analyzeGap and processSegments.                     *)
(*                                                                         *)
(* The points of the model lie on the meridian lon = 0, where the          *)
(* haversine distance is the length of the arc between the two latitudes.  *)
(* lat is counted in metres of that arc, and distances and the distance    *)
(* threshold are counted in metres too (0.5 km is 500).  A point's time is *)
(* its Date in milliseconds; a point without a timestamp has no time       *)
(* field.  Options that are not passed are fields the record does not      *)
(* have.                                                                   *)
(***************************************************************************)
\* largest number of segments passed to processSegments
MaxSegments == 3

DEFAULT_MAX_TIME_GAP_SECONDS == 300
DEFAULT_MAX_DISTANCE_GAP_KM == 500

SegmentPlaces == {0, 500, 501}
SegmentTimes == {0, 240000, 240999, 1740000}
SegmentOptions ==
  {<<>>, [maxTimeGapSeconds |-> 240], [maxDistanceGapKm |-> 0],
   [maxTimeGapSeconds |-> 0, maxDistanceGapKm |-> 501]}

SegmentPoints ==
  {[lon |-> 0, lat |-> l, ele |-> 0] : l \in SegmentPlaces}
    \cup {[lon |-> 0, lat |-> l, ele |-> 0, time |-> t] :
             l \in SegmentPlaces, t \in SegmentTimes}

\* the segments of at most n points
SegmentsOf(n) == {[points |-> ps] : ps \in UNION {[1..k -> SegmentPoints] : k \in 0..n}}

\* haversineDistance for two points of the meridian lon1 = lon2 = 0
haversineDistance(lat1, lon1, lat2, lon2) ==
  IF lat2 >= lat1 THEN lat2 - lat1 ELSE lat1 - lat2

\* options?.name ?? default
optionOr(options, name, default) ==
  IF name \in DOMAIN options THEN options[name] ELSE default

\* analyzeGap without the Math.max of line 94
analyzeGap_noClamp(seg1, seg2, options) ==
  LET maxTimeGap == optionOr(options, "maxTimeGapSeconds", DEFAULT_MAX_TIME_GAP_SECONDS)
      maxDistanceGap == optionOr(options, "maxDistanceGapKm", DEFAULT_MAX_DISTANCE_GAP_KM)
      lastPoint1 == seg1.points[Len(seg1.points)]
      firstPoint2 == seg2.points[1]
      timeGapSeconds ==
        IF "time" \in DOMAIN lastPoint1 /\ "time" \in DOMAIN firstPoint2
          THEN (firstPoint2.time - lastPoint1.time) \div 1000
          ELSE 0
      distanceGapKm ==
        haversineDistance(lastPoint1.lat, lastPoint1.lon, firstPoint2.lat, firstPoint2.lon)
      timeOk == timeGapSeconds = 0 \/ timeGapSeconds <= maxTimeGap
      distanceOk == distanceGapKm <= maxDistanceGap
  IN  IF Len(seg1.points) = 0 \/ Len(seg2.points) = 0
        THEN [timeGapSeconds |-> 0, distanceGapKm |-> 0, shouldMerge |-> TRUE]
        ELSE [timeGapSeconds |-> timeGapSeconds, distanceGapKm |-> distanceGapKm,
              shouldMerge |-> timeOk /\ distanceOk]

analyzeGap(seg1, seg2, options) ==
  LET maxTimeGap == optionOr(options, "maxTimeGapSeconds", DEFAULT_MAX_TIME_GAP_SECONDS)
      maxDistanceGap == optionOr(options, "maxDistanceGapKm", DEFAULT_MAX_DISTANCE_GAP_KM)
      lastPoint1 == seg1.points[Len(seg1.points)]
      firstPoint2 == seg2.points[1]
      floored == (firstPoint2.time - lastPoint1.time) \div 1000
      timeGapSeconds ==
        IF "time" \in DOMAIN lastPoint1 /\ "time" \in DOMAIN firstPoint2
          THEN (IF floored > 0 THEN floored ELSE 0)
          ELSE 0
      distanceGapKm ==
        haversineDistance(lastPoint1.lat, lastPoint1.lon, firstPoint2.lat, firstPoint2.lon)
      timeOk == timeGapSeconds = 0 \/ timeGapSeconds <= maxTimeGap
      distanceOk == distanceGapKm <= maxDistanceGap
  IN  IF Len(seg1.points) = 0 \/ Len(seg2.points) = 0
        THEN [timeGapSeconds |-> 0, distanceGapKm |-> 0, shouldMerge |-> TRUE]
        ELSE [timeGapSeconds |-> timeGapSeconds, distanceGapKm |-> distanceGapKm,
              shouldMerge |-> timeOk /\ distanceOk]

\* the loop of processSegments comparing each segment with the input
\* segment before it
RECURSIVE forSegments_inputPairs(_, _, _, _, _, _)
forSegments_inputPairs(segments, options, i, currentSegment, gaps, resultSegments) ==
  IF i > Len(segments)
    THEN [segments |-> Append(resultSegments, currentSegment), gaps |-> gaps]
  ELSE LET nextSegment == segments[i]
           gap == analyzeGap(segments[i - 1], nextSegment, options)
       IN  IF gap.shouldMerge
             THEN forSegments_inputPairs(segments, options, i + 1,
                    [points |-> currentSegment.points \o nextSegment.points],
                    Append(gaps, gap), resultSegments)
             ELSE forSegments_inputPairs(segments, options, i + 1,
                    [points |-> nextSegment.points],
                    Append(gaps, gap), Append(resultSegments, currentSegment))

\* the loop of processSegments recording a gap only where it splits
RECURSIVE forSegments_gapOnSplit(_, _, _, _, _, _)
forSegments_gapOnSplit(segments, options, i, currentSegment, gaps, resultSegments) ==
  IF i > Len(segments)
    THEN [segments |-> Append(resultSegments, currentSegment), gaps |-> gaps]
  ELSE LET nextSegment == segments[i]
           gap == analyzeGap(currentSegment, nextSegment, options)
       IN  IF gap.shouldMerge
             THEN forSegments_gapOnSplit(segments, options, i + 1,
                    [points |-> currentSegment.points \o nextSegment.points],
                    gaps, resultSegments)
             ELSE forSegments_gapOnSplit(segments, options, i + 1,
                    [points |-> nextSegment.points],
                    Append(gaps, gap), Append(resultSegments, currentSegment))

\* lines 152-170: the for loop of processSegments (i starts at 2 in the
\* model, whose sequences start at 1) and the push after it
RECURSIVE forSegments(_, _, _, _, _, _)
forSegments(segments, options, i, currentSegment, gaps, resultSegments) ==
  IF i > Len(segments)
    THEN [segments |-> Append(resultSegments, currentSegment), gaps |-> gaps]
  ELSE LET nextSegment == segments[i]
           gap == analyzeGap(currentSegment, nextSegment, options)
       IN  IF gap.shouldMerge
             THEN forSegments(segments, options, i + 1,
                    [points |-> currentSegment.points \o nextSegment.points],
                    Append(gaps, gap), resultSegments)
             ELSE forSegments(segments, options, i + 1,
                    [points |-> nextSegment.points],
                    Append(gaps, gap), Append(resultSegments, currentSegment))

processSegments(segments, options) ==
  IF Len(segments) = 0 THEN [segments |-> <<>>, gaps |-> <<>>]
  ELSE IF Len(segments) = 1 THEN [segments |-> segments, gaps |-> <<>>]
  ELSE LET r == forSegments(segments, options, 2, [points |-> segments[1].points],
                            <<>>, <<>>)
       IN  [segments |-> r.segments, gaps |-> r.gaps,
            mergeInfo |-> [originalCount |-> Len(segments),
                           resultCount |-> Len(r.segments),
                           mergedCount |-> Len(segments) - Len(r.segments)]]

InitSegments ==
  /\ ManifestIdle
  /\ WatchIdle
  /\ ret = NotCalled
  /\ loop = NoLoop
  /\ \/ args \in [fn : {"analyzeGap"}, seg1 : SegmentsOf(2), seg2 : SegmentsOf(2),
                  options : SegmentOptions]
     \/ args \in [fn : {"processSegments"},
                  segments : UNION {[1..n -> SegmentsOf(1)] : n \in 0..MaxSegments},
                  options : SegmentOptions]

CallAnalyzeGap ==
  /\ args.fn = "analyzeGap"
  /\ ret = NotCalled
  /\ ret' = Value(analyzeGap(args.seg1, args.seg2, args.options))
  /\ UNCHANGED <<args, loop, manifestVars, watchVars>>

CallProcessSegments ==
  /\ args.fn = "processSegments"
  /\ ret = NotCalled
  /\ ret' = Value(processSegments(args.segments, args.options))
  /\ UNCHANGED <<args, loop, manifestVars, watchVars>>

NextSegments ==
  \/ CallAnalyzeGap
  \/ CallProcessSegments

SpecSegments == InitSegments /\ [][NextSegments]_vars

(***************************************************************************)
(* Properties of the segment merger.                                       *)
(***************************************************************************)
hasTime(point) == "time" \in DOMAIN point

\* two one-point segments at the same place, the second gapSeconds later
pairAfter(gapSeconds) ==
  << [points |-> <<[lon |-> 0, lat |-> 0, ele |-> 0, time |-> 0]>>],
     [points |-> <<[lon |-> 0, lat |-> 0, ele |-> 0, time |-> gapSeconds * 1000]>>] >>

\* C17: on two non-empty segments analyzeGap reports a time gap that is
\* never negative, 0 when the later segment starts before the earlier one
\* ends, and 0 when either boundary point has no timestamp; shouldMerge is
\* (timeGap = 0 or timeGap <= maxTimeGapSeconds) and distanceGap <=
\* maxDistanceGapKm, with defaults 300 s and 0.5 km.  With the defaults a
\* 240 s gap at no distance gives one segment and a 29-minute gap two.
C17_GapAndMergeDecision ==
  /\ (/\ args.fn = "analyzeGap"
      /\ ret.called
      /\ Len(args.seg1.points) > 0
      /\ Len(args.seg2.points) > 0) =>
        LET last1 == args.seg1.points[Len(args.seg1.points)]
            first2 == args.seg2.points[1]
            gap == ret.value
            maxTime == IF "maxTimeGapSeconds" \in DOMAIN args.options
                         THEN args.options.maxTimeGapSeconds ELSE 300
            maxDistance == IF "maxDistanceGapKm" \in DOMAIN args.options
                             THEN args.options.maxDistanceGapKm ELSE 500
        IN  /\ gap.timeGapSeconds >= 0
            /\ (~hasTime(last1) \/ ~hasTime(first2)) => gap.timeGapSeconds = 0
            /\ (hasTime(last1) /\ hasTime(first2) /\ first2.time <= last1.time) =>
                  gap.timeGapSeconds = 0
            /\ gap.shouldMerge =
                  (/\ gap.timeGapSeconds = 0 \/ gap.timeGapSeconds <= maxTime
                   /\ gap.distanceGapKm <= maxDistance)
  /\ (args.fn = "processSegments" /\ ret.called /\ args.options = <<>>) =>
        /\ args.segments = pairAfter(240) => Len(ret.value.segments) = 1
        /\ args.segments = pairAfter(1740) => Len(ret.value.segments) = 2

\* C17 witness: the later segment starts before the earlier one ends, and
\* the gap was reported as 0 and merging
C17_Witness ==
  /\ args.fn = "analyzeGap"
  /\ ret.called
  /\ Len(args.seg1.points) = 2
  /\ Len(args.seg2.points) = 2
  /\ hasTime(args.seg1.points[2])
  /\ hasTime(args.seg2.points[1])
  /\ args.seg2.points[1].time < args.seg1.points[2].time
  /\ ret.value.timeGapSeconds = 0
  /\ ret.value.shouldMerge

\* C17, the two examples happen: the 240 s gap gave one segment
C17_WitnessMerged ==
  /\ args.fn = "processSegments"
  /\ ret.called
  /\ args.options = <<>>
  /\ args.segments = pairAfter(240)
  /\ Len(ret.value.segments) = 1

\* C17, the two examples happen: the 29-minute gap gave two segments
C17_WitnessSplit ==
  /\ args.fn = "processSegments"
  /\ ret.called
  /\ args.options = <<>>
  /\ args.segments = pairAfter(1740)
  /\ Len(ret.value.segments) = 2

isEmpty(segment) == Len(segment.points) = 0

RECURSIVE pick(_, _, _)
pick(seq, idxs, i) ==
  IF i > Len(seq) THEN <<>>
  ELSE (IF i \in idxs THEN <<seq[i]>> ELSE <<>>) \o pick(seq, idxs, i + 1)

RECURSIVE pointsUpTo(_, _)
pointsUpTo(segments, i) ==
  IF i = 0 THEN <<>> ELSE pointsUpTo(segments, i - 1) \o segments[i].points

\* C19: for n >= 2 segments processSegments returns n - 1 gap records, the
\* i-th being the gap between what precedes segment i + 1 and segment i + 1,
\* and resultCount = n - (number of merging gaps), mergedCount =
\* originalCount - resultCount = the number of merging gaps; 0 or 1 segment
\* pass through with an empty gap list.
C19_GapCountAndMergeInfo ==
  (args.fn = "processSegments" /\ ret.called) =>
    LET segments == args.segments
        n == Len(segments)
        out == ret.value
        merging == Cardinality({i \in 1..Len(out.gaps) : out.gaps[i].shouldMerge})
    IN  /\ n <= 1 => out.segments = segments /\ out.gaps = <<>>
        /\ n >= 2 =>
              /\ Len(out.gaps) = n - 1
              /\ \A i \in 1..(n - 1) :
                    out.gaps[i] = analyzeGap([points |-> pointsUpTo(segments, i)],
                                             segments[i + 1], args.options)
              /\ out.mergeInfo.originalCount = n
              /\ out.mergeInfo.resultCount = Len(out.segments)
              /\ out.mergeInfo.resultCount = n - merging
              /\ out.mergeInfo.mergedCount = merging
              /\ out.mergeInfo.mergedCount
                   = out.mergeInfo.originalCount - out.mergeInfo.resultCount

\* C19 witness: three segments, one gap that merges and one that splits
C19_Witness ==
  /\ args.fn = "processSegments"
  /\ ret.called
  /\ Len(args.segments) = 3
  /\ \A i \in 1..3 : ~isEmpty(args.segments[i])
  /\ ret.value.gaps[1].shouldMerge
  /\ ~ret.value.gaps[2].shouldMerge
  /\ ret.value.mergeInfo.mergedCount = 1

(***************************************************************************)
(* The metric calculator: calculateMetadata and calculateElevationStats.   *)
(*                                                                         *)
(* Elevations and the noise threshold are counted in half metres, so that  *)
(* Math.round has something to round: the default threshold of 2 m is 4.   *)
(* Of CalculatedMetadata the model keeps elevation, segments and           *)
(* pointCount.                                                             *)
(***************************************************************************)
\* longest point sequence of a track passed to calculateMetadata
MaxTrackPoints == 4

DEFAULT_ELEVATION_THRESHOLD == 4

HalfMetres == {-4, 0, 3, 4, 5}
Thresholds == {0, 4, 5}

\* Math.round of a number of half metres, in metres
roundHalves(h) == (h + 1) \div 2

abs(v) == IF v >= 0 THEN v ELSE -v

maxOf(elevations) ==
  CHOOSE m \in {elevations[i] : i \in 1..Len(elevations)} :
    \A i \in 1..Len(elevations) : elevations[i] <= m
minOf(elevations) ==
  CHOOSE m \in {elevations[i] : i \in 1..Len(elevations)} :
    \A i \in 1..Len(elevations) : elevations[i] >= m

\* lines 137-150: the for loop of calculateElevationStats (i starts at 2 in
\* the model, whose sequences start at 1)
RECURSIVE forElevations(_, _, _, _, _, _)
forElevations(elevations, threshold, i, gain, loss, lastSignificantEle) ==
  IF i > Len(elevations) THEN [gain |-> gain, loss |-> loss]
  ELSE LET ele == elevations[i]
           diff == ele - lastSignificantEle
       IN  IF abs(diff) >= threshold
             THEN IF diff > 0
                    THEN forElevations(elevations, threshold, i + 1,
                                       gain + diff, loss, ele)
                    ELSE forElevations(elevations, threshold, i + 1,
                                       gain, loss + abs(diff), ele)
             ELSE forElevations(elevations, threshold, i + 1,
                                gain, loss, lastSignificantEle)

calculateElevationStats(points, threshold) ==
  LET elevations == [i \in 1..Len(points) |-> points[i].ele]
      walked == forElevations(elevations, threshold, 2, 0, 0, elevations[1])
  IN  IF Len(points) = 0 THEN [gain |-> 0, loss |-> 0, max |-> 0, min |-> 0]
      ELSE IF maxOf(elevations) = 0 /\ minOf(elevations) = 0
        THEN [gain |-> 0, loss |-> 0, max |-> 0, min |-> 0]
      ELSE [gain |-> roundHalves(walked.gain), loss |-> roundHalves(walked.loss),
            max |-> roundHalves(maxOf(elevations)),
            min |-> roundHalves(minOf(elevations))]

\* track.segments.flatMap((seg) => seg.points)
RECURSIVE flatMapPoints(_, _)
flatMapPoints(segments, i) ==
  IF i > Len(segments) THEN <<>>
  ELSE segments[i].points \o flatMapPoints(segments, i + 1)

PAUSE_THRESHOLD_SECONDS == 120

\* p.time !== undefined
timed(p) == "time" \in DOMAIN p

\* Math.floor(ms / 1000)
floorSeconds(ms) == ms \div 1000

calculateDuration(points) ==
  LET pointsWithTime == SelectSeq(points, timed)
  IN  IF Len(pointsWithTime) < 2 THEN 0
      ELSE floorSeconds(pointsWithTime[Len(pointsWithTime)].time - pointsWithTime[1].time)

\* lines 103-114: the for loop of calculateMovingTime; movingTime is counted
\* in milliseconds
RECURSIVE forMovingTime(_, _, _)
forMovingTime(points, i, movingTime) ==
  IF i > Len(points) THEN movingTime
  ELSE LET prev == points[i - 1]
           curr == points[i]
       IN  IF timed(prev) /\ timed(curr)
                /\ curr.time - prev.time < PAUSE_THRESHOLD_SECONDS * 1000
             THEN forMovingTime(points, i + 1, movingTime + (curr.time - prev.time))
             ELSE forMovingTime(points, i + 1, movingTime)

calculateMovingTime(points) == floorSeconds(forMovingTime(points, 2, 0))

calculateMetadata(track, elevationThreshold) ==
  LET allPoints == flatMapPoints(track.segments, 1)
  IN  [duration |-> calculateDuration(allPoints),
       movingTime |-> calculateMovingTime(allPoints),
       elevation |-> calculateElevationStats(allPoints, elevationThreshold),
       segments |-> Len(track.segments),
       pointCount |-> [original |-> Len(allPoints), simplified |-> Len(allPoints)]]

\* a point sequence as one segment (cut = 0) or cut in two before point cut
segmentsOf(ps, cut) ==
  IF cut = 0 THEN <<[points |-> ps]>>
  ELSE <<[points |-> [i \in 1..(cut - 1) |-> ps[i]]],
         [points |-> [i \in 1..(Len(ps) - cut + 1) |-> ps[i + cut - 1]]]>>

\* the tracks of one or two segments with up to MaxTrackPoints points
ParsedTracks ==
  LET pointSeqs == UNION {[1..n -> {[lon |-> 0, lat |-> 0, ele |-> e] : e \in HalfMetres}] :
                            n \in 0..MaxTrackPoints}
  IN  {[name |-> "t", segments |-> segmentsOf(x[1], x[2])] :
         x \in {y \in pointSeqs \X (0..(MaxTrackPoints + 1)) : y[2] <= Len(y[1]) + 1}}

InitMetadata ==
  /\ ManifestIdle
  /\ WatchIdle
  /\ ret = NotCalled
  /\ loop = NoLoop
  /\ \/ args \in [fn : {"calculateMetadata"}, track : ParsedTracks]
     \/ args \in [fn : {"calculateMetadata"}, track : ParsedTracks,
                  elevationThreshold : Thresholds]

CallCalculateMetadata ==
  /\ args.fn = "calculateMetadata"
  /\ ret = NotCalled
  /\ ret' = Value(calculateMetadata(args.track,
                optionOr(args, "elevationThreshold", DEFAULT_ELEVATION_THRESHOLD)))
  /\ UNCHANGED <<args, loop, manifestVars, watchVars>>

NextMetadata == CallCalculateMetadata

SpecMetadata == InitMetadata /\ [][NextMetadata]_vars

(***************************************************************************)
(* Properties of the metric calculator.                                    *)
(***************************************************************************)
\* the elevations of a track's points, and the threshold of the call
trackElevations ==
  LET allPoints == flatMapPoints(args.track.segments, 1)
  IN  [i \in 1..Len(allPoints) |-> allPoints[i].ele]
thresholdOfCall ==
  IF "elevationThreshold" \in DOMAIN args THEN args.elevationThreshold ELSE 4

\* gain and loss (in half metres) of a walk in which a step counts, and
\* becomes the reference, when its distance from the reference is above the
\* threshold
RECURSIVE walk(_, _, _, _)
walk(elevations, threshold, i, reference) ==
  IF i > Len(elevations) THEN [gain |-> 0, loss |-> 0]
  ELSE LET diff == elevations[i] - reference
           counts == abs(diff) > threshold
           later == walk(elevations, threshold, i + 1,
                         IF counts THEN elevations[i] ELSE reference)
       IN  IF ~counts THEN later
           ELSE IF diff > 0 THEN [later EXCEPT !.gain = @ + diff]
           ELSE [later EXCEPT !.loss = @ - diff]

hasElevationData ==
  /\ Len(trackElevations) > 0
  /\ \E i \in 1..Len(trackElevations) : trackElevations[i] # 0

\* C20: a step contributes to gain or loss, and resets the reference, only
\* when its absolute difference from the reference strictly exceeds the
\* threshold; a difference equal to the threshold contributes nothing.
C20_CountsOnlyAboveThreshold ==
  (args.fn = "calculateMetadata" /\ ret.called /\ hasElevationData) =>
    LET w == walk(trackElevations, thresholdOfCall, 2, trackElevations[1])
    IN  /\ ret.value.elevation.gain = roundHalves(w.gain)
        /\ ret.value.elevation.loss = roundHalves(w.loss)

(***************************************************************************)
(* commands/tag.ts: one syncFiles run on a manifest of an earlier session. *)
(***************************************************************************)
\* the manifests a session can leave behind: per path no entry, or the entry
\* of addFileEntry, or that entry after one updateFileStatus
entriesLeft(m, p) ==
  {m} \cup
  UNION {LET added == addFileEntry(m, p, c, 0)
         IN  {added} \cup {updateFileStatus(added, p, st, e, 0).manifest :
                             st \in Statuses, e \in ErrorArgs} :
           c \in Checksums}

ManifestsLeft ==
  UNION {entriesLeft(m, "B.GPX") : m \in entriesLeft(createManifest(0), "a.gpx")}

InitResume ==
  /\ now = 0
  /\ manifest \in ManifestsLeft
  /\ pc = "idle"
  /\ files = <<>>
  /\ idx = 1
  /\ checksum = Undefined
  /\ existingEntry = {}
  /\ result = newResult(0)
  /\ lastCall = NoCall
  /\ nCalls = 0
  /\ nRuns = 0
  /\ nWrites = 0
  /\ hist = NoHist
  /\ disk \in [Paths -> Contents \cup {NoFile}]
  /\ WatchIdle
  /\ FnIdle

NextResume ==
  \/ nRuns = 0 /\ SyncStart
  \/ LoopHead
  \/ AddEntry
  \/ MarkProcessing
  \/ \E o \in Outcomes : ProcessorSettles(o)
  \/ SyncReturn

SpecResume == InitResume /\ [][NextResume]_vars

\* the paths whose entry in manifest m has status st
getFilesByStatus(m, st) == {p \in DOMAIN m.files : m.files[p].status = st}

\* C21: in a syncFiles run that was passed a manifest with no entry in
\* processing, at most one entry is in processing at any point: none when
\* the loop is about to compute a file's checksum or to add its entry, and
\* exactly the current file's entry while its processor call is awaited.
C21_OneFileAtATime ==
  (InRun /\ getFilesByStatus(result.manifest, "processing") = {}) =>
    /\ Cardinality(getFilesByStatus(manifest, "processing")) <= 1
    /\ pc \in {"loop", "add", "mark"} => getFilesByStatus(manifest, "processing") = {}
    /\ pc = "await" => getFilesByStatus(manifest, "processing") = {filePath}

\* C21 witness: the second file of a run is awaited after the first one's
\* call has failed
C21_Witness ==
  /\ pc = "await"
  /\ idx = 2
  /\ getFilesByStatus(result.manifest, "processing") = {}
  /\ getFilesByStatus(manifest, "processing") = {files[2]}
  /\ getFilesByStatus(manifest, "error") = {files[1]}

\* C22: when syncFiles returns, every scanned file has an entry whose
\* checksum is the one computed in this run and whose status is processed
\* or error, whatever its entry was in the manifest passed in.
C22_ScannedFilesSettled ==
  pc = "returned" =>
    /\ result.manifest = manifest
    /\ \A p \in scanned :
          /\ p \in DOMAIN manifest.files
          /\ manifest.files[p].checksum = hist.reached[p].checksum
          /\ manifest.files[p].status \in {"processed", "error"}

\* C22 witness: a run returned that found one file's entry in processing and
\* the other's in pending, one of them with another checksum than the file's
C22_Witness ==
  /\ pc = "returned"
  /\ Len(files) = 2
  /\ \E p, q \in scanned :
        /\ \E e \in hist.reached[p].entry :
              e.status = "processing" /\ e.checksum = hist.reached[p].checksum
        /\ \E e \in hist.reached[q].entry :
              e.status = "pending" /\ e.checksum # hist.reached[q].checksum

\* C23: in the SyncResult returned, total is the number of scanned files and
\* equals processed + skipped + errors, errors is the length of errorFiles,
\* and errorFiles lists, once each, exactly the scanned files whose entry
\* ended in status error.
C23_CountsPartitionTheScan ==
  pc = "returned" =>
    LET listed == {result.errorFiles[i].path : i \in 1..Len(result.errorFiles)}
    IN  /\ result.total = Cardinality(scanned)
        /\ result.total = result.processed + result.skipped + result.errors
        /\ result.errors = Len(result.errorFiles)
        /\ Cardinality(listed) = Len(result.errorFiles)
        /\ listed = scanned \cap getFilesByStatus(manifest, "error")

\* C23 witness: of two scanned files one was skipped and one ended in error
C23_Witness ==
  /\ pc = "returned"
  /\ result.total = 2
  /\ result.skipped = 1
  /\ result.errors = 1
  /\ Len(result.errorFiles) = 1

(***************************************************************************)
(* commands/watch.ts: notifications that arrive while a call is in flight. *)
(***************************************************************************)
\* C24: a path is in the in-flight set exactly while a processor call for it
\* is outstanding; a notification for a path in flight changes nothing; the
\* step in which a call settles takes the path out of the set and starts no
\* call; and a call starts only in the step of a notification for a path
\* that is not in flight.
C24_InFlightNotificationDiscarded ==
  /\ processing = {p \in WatchPaths : outstanding[p] > 0}
  /\ watchCall.op # "none" =>
       \A p \in WatchPaths :
         /\ outstanding[p] > watchCall.before[p] =>
               /\ watchCall.op = "handleFile"
               /\ watchCall.path = p
               /\ p \notin watchCall.inFlight
         /\ (watchCall.op = "handleFile" /\ watchCall.path = p
                /\ p \in watchCall.inFlight) =>
               /\ outstanding = watchCall.before
               /\ processing = watchCall.inFlight
         /\ (watchCall.op = "settle" /\ watchCall.path = p) =>
               /\ outstanding = [watchCall.before EXCEPT ![p] = 0]
               /\ processing = watchCall.inFlight \ {p}

\* C24 witness: a path whose first call threw was reported again, and a third
\* notification for it arrived while its second call was outstanding
C24_Witness ==
  /\ watchCall.op = "handleFile"
  /\ watchCall.path \in watchCall.thrown
  /\ watchCall.path \in watchCall.inFlight
  /\ outstanding[watchCall.path] = 1

(***************************************************************************)
(* transforms/simplify3d.ts: the error bound of the simplified track.      *)
(***************************************************************************)
\* the indices of the input points that ret.value holds (a point of the
\* model carries its index as its timestamp)
keptIndices(out) == {out[j].time : j \in 1..Len(out)}

\* C25: in the output of simplify3D with tolerance t > 0, every dropped
\* input point lies, measured by perpendicularDistance3D, at a distance of at
\* most t (in metres) from the chord that joins the nearest kept point
\* before it and the nearest kept point after it.
C25_DroppedPointsWithinTolerance ==
  (args.fn = "simplify3D" /\ ret.called /\ args.tolerance > 0) =>
    LET points == args.points
        kept == keptIndices(ret.value)
    IN  \A i \in (1..Len(points)) \ kept :
          \E a, b \in kept :
            /\ a < i /\ i < b
            /\ \A k \in kept : k <= a \/ k >= b
            /\ ~Greater(perpendicularDistance3D(points[i], points[a], points[b],
                                                args.elevationWeight),
                        Frac(sq(args.tolerance), 1))

\* C25 witness: of four points the second was kept for its distance from the
\* chord of the ends, and the third was dropped although it lies off the
\* chord from the second to the last
C25_Witness ==
  /\ args.fn = "simplify3D"
  /\ ret.called
  /\ args.tolerance > 0
  /\ Len(args.points) = 4
  /\ keptIndices(ret.value) = {1, 2, 4}
  /\ Greater(perpendicularDistance3D(args.points[3], args.points[2], args.points[4],
                                     args.elevationWeight),
             Frac(0, 1))

(***************************************************************************)
(* transforms/simplify3d.ts: one track simplified with two tolerances.     *)
(***************************************************************************)
InitTolerances ==
  /\ ManifestIdle
  /\ WatchIdle
  /\ ret = NotCalled
  /\ loop = NoLoop
  /\ args \in [fn : {"simplify3D, simplify3D"}, points : Tracks,
               tolerance : {t \in (0..MaxTolerance) \X (0..MaxTolerance) : t[1] <= t[2]},
               elevationWeight : ElevationWeights]

\* simplify3D(points, t1, w) and simplify3D(points, t2, w)
CallSimplify3DTwice ==
  /\ args.fn = "simplify3D, simplify3D"
  /\ ret = NotCalled
  /\ ret' = Value([t \in 1..2 |->
                     simplify3D(args.points, args.tolerance[t], args.elevationWeight)])
  /\ UNCHANGED <<args, loop, manifestVars, watchVars>>

NextTolerances == CallSimplify3DTwice

SpecTolerances == InitTolerances /\ [][NextTolerances]_vars

\* C26: for the same points and elevation weight and tolerances t1 <= t2,
\* the points simplify3D keeps with t2 are among those it keeps with t1, so
\* the output for t2 is not longer than the output for t1.
C26_HigherToleranceKeepsSubset ==
  (args.fn = "simplify3D, simplify3D" /\ ret.called) =>
    /\ keptIndices(ret.value[2]) \subseteq keptIndices(ret.value[1])
    /\ Len(ret.value[2]) <= Len(ret.value[1])

\* C26 witness: the higher tolerance dropped a point that the lower one
\* kept, and kept another point
C26_Witness ==
  /\ args.fn = "simplify3D, simplify3D"
  /\ ret.called
  /\ args.tolerance[1] < args.tolerance[2]
  /\ Len(ret.value[2]) < Len(ret.value[1])
  /\ Len(ret.value[2]) > 2

(***************************************************************************)
(* transforms/simplify3d.ts: the work-stack loop, one iteration at a time. *)
(***************************************************************************)
\* largest number of ranges the stack may hold before the run is cut off
\* (a run that splits properly holds fewer ranges than the track has points)
MaxStack == 4

\* a > b for a squared distance a and a distance b in metres
exceeds(a, b) == IF b < 0 THEN TRUE ELSE Greater(a, Frac(sq(b), 1))

\* lines 134-161: one iteration of the while loop
whileBody(points, toleranceMeters, elevationWeight, locals) ==
  LET range == locals.stack[Len(locals.stack)]
      rest == SubSeq(locals.stack, 1, Len(locals.stack) - 1)
      start == range[1]
      end == range[2]
      m == findMax(points, start, end, elevationWeight, start + 1, Frac(0, 1), start)
  IN  IF end - start <= 1
        THEN [locals EXCEPT !.stack = rest]
      ELSE IF exceeds(m.maxDist, toleranceMeters)
        THEN [stack |-> rest \o << <<start, m.maxIndex>>, <<m.maxIndex, end>> >>,
              keep |-> [locals.keep EXCEPT ![m.maxIndex] = TRUE]]
      ELSE [locals EXCEPT !.stack = rest]

InitLoop ==
  /\ ManifestIdle
  /\ WatchIdle
  /\ ret = NotCalled
  /\ loop = NoLoop
  /\ args \in [fn : {"douglasPeuckerIterative"}, points : Tracks,
               toleranceMeters : (-1)..MaxTolerance,
               elevationWeight : ElevationWeights]

\* lines 122-131: the early return, the array keep and the first range
EnterLoop ==
  /\ args.fn = "douglasPeuckerIterative"
  /\ ret = NotCalled
  /\ loop = NoLoop
  /\ LET n == Len(args.points)
     IN  IF n <= 2
           THEN ret' = Value(args.points) /\ UNCHANGED loop
           ELSE /\ loop' = [stack |-> << <<1, n>> >>, keep |-> initialKeep(n)]
                /\ UNCHANGED ret
  /\ UNCHANGED <<args, manifestVars, watchVars>>

\* lines 133-162: the loop pops a range and handles it
LoopIteration ==
  /\ ret = NotCalled
  /\ loop.stack # <<>>
  /\ Len(loop.stack) < MaxStack
  /\ loop' = whileBody(args.points, args.toleranceMeters, args.elevationWeight, loop)
  /\ UNCHANGED <<args, ret, manifestVars, watchVars>>

\* lines 164-172: the stack is empty, the kept points are returned
LoopExit ==
  /\ ret = NotCalled
  /\ loop # NoLoop
  /\ loop.stack = <<>>
  /\ ret' = Value(keptPoints(args.points, loop.keep, 1))
  /\ UNCHANGED <<args, loop, manifestVars, watchVars>>

NextLoop ==
  \/ EnterLoop
  \/ LoopIteration
  \/ LoopExit

\* the loop is synchronous code: it runs on as long as it can
SpecLoop == InitLoop /\ [][NextLoop]_vars /\ WF_vars(NextLoop)

\* C27: the work-stack loop terminates on every input: every range on the
\* stack has start < end, so that the two ranges pushed by a split (start,
\* maxIndex) and (maxIndex, end) are strictly shorter than the range that
\* was split, and the stack is eventually empty and the call returns.
C27_StackLoopTerminates ==
  /\ [](\A j \in 1..Len(loop.stack) : loop.stack[j][1] < loop.stack[j][2])
  /\ <>(ret.called)

\* the loop run with a tolerance that is not negative returns what the
\* function douglasPeuckerIterative of the model returns
LoopAgreesWithFunction ==
  (args.fn = "douglasPeuckerIterative" /\ ret.called /\ args.toleranceMeters >= 0) =>
    ret.value = douglasPeuckerIterative(args.points, args.toleranceMeters,
                                        args.elevationWeight)

\* with a tolerance that is not negative the stack stays below its bound
\* and the call returns
LoopTerminatesFromZeroUp ==
  /\ [](args.toleranceMeters >= 0 => Len(loop.stack) < MaxStack)
  /\ (args.toleranceMeters >= 0) ~> ret.called

(***************************************************************************)
(* transforms/segments.ts: processSegments on objects.                     *)
(*                                                                         *)
(* A segment is an object with one field, points, that refers to an array. *)
(* objs[o] is the array that segment object o refers to and arrays[a] is   *)
(* the content of array a.  The n input segments are the objects 1..n with *)
(* the arrays 1..n; an object or array made by the call gets the next free *)
(* number.                                                                 *)
(***************************************************************************)
\* the segment value that analyzeGap reads through object o
deref(objs, arrays, o) == [points |-> arrays[objs[o]]]

\* { points: [...source.points] }: a new object with a new array
newSegment(objs, arrays, content) ==
  [objs |-> Append(objs, Len(arrays) + 1), arrays |-> Append(arrays, content),
   made |-> Len(objs) + 1]

\* lines 143-146 without the copy: currentSegment is the first input segment
firstSegment_noCopy(objs, arrays) == [objs |-> objs, arrays |-> arrays, made |-> 1]

\* lines 143-146: currentSegment = { points: [...segments[0].points] }
firstSegment(objs, arrays) == newSegment(objs, arrays, arrays[objs[1]])

\* lines 151-167: the for loop; segments holds the input objects
RECURSIVE forObjects(_, _, _, _, _, _, _, _)
forObjects(segments, options, i, currentSegment, gaps, resultSegments, objs, arrays) ==
  IF i > Len(segments)
    THEN [segments |-> Append(resultSegments, currentSegment), gaps |-> gaps,
          objs |-> objs, arrays |-> arrays]
  ELSE LET nextSegment == segments[i]
           gap == analyzeGap(deref(objs, arrays, currentSegment),
                             deref(objs, arrays, nextSegment), options)
       IN  IF gap.shouldMerge
             THEN forObjects(segments, options, i + 1, currentSegment,
                    Append(gaps, gap), resultSegments, objs,
                    [arrays EXCEPT ![objs[currentSegment]] =
                                      @ \o arrays[objs[nextSegment]]])
             ELSE LET new == newSegment(objs, arrays, arrays[objs[nextSegment]])
                  IN  forObjects(segments, options, i + 1, new.made,
                        Append(gaps, gap), Append(resultSegments, currentSegment),
                        new.objs, new.arrays)

\* processSegments, returning the objects of the result and the heap it left
processSegmentsOnObjects(segments, options) ==
  LET n == Len(segments)
      ids == [i \in 1..n |-> i]
      arrays == [i \in 1..n |-> segments[i].points]
  IN  IF n = 0 THEN [segments |-> <<>>, gaps |-> <<>>, objs |-> ids, arrays |-> arrays]
      ELSE IF n = 1 THEN [segments |-> ids, gaps |-> <<>>, objs |-> ids, arrays |-> arrays]
      ELSE LET first == firstSegment(ids, arrays)
           IN  forObjects(ids, options, 2, first.made, <<>>, <<>>,
                          first.objs, first.arrays)

InitObjects ==
  /\ ManifestIdle
  /\ WatchIdle
  /\ ret = NotCalled
  /\ loop = NoLoop
  /\ args \in [fn : {"processSegments"},
               segments : UNION {[1..n -> SegmentsOf(1)] : n \in 0..MaxSegments},
               options : SegmentOptions]

CallProcessSegmentsOnObjects ==
  /\ args.fn = "processSegments"
  /\ ret = NotCalled
  /\ ret' = Value(processSegmentsOnObjects(args.segments, args.options))
  /\ UNCHANGED <<args, loop, manifestVars, watchVars>>

NextObjects == CallProcessSegmentsOnObjects

SpecObjects == InitObjects /\ [][NextObjects]_vars

\* the points of segments a..b of the input, in order
RECURSIVE run(_, _, _)
run(segments, a, b) ==
  IF a > b THEN <<>> ELSE segments[a].points \o run(segments, a + 1, b)

\* C28: the points of the segments processSegments returns, read in order,
\* are the points of the input segments read in order; every returned
\* segment is a run of consecutive input segments; and after the call each
\* input segment object refers to the array it referred to before, whose
\* content is what it was.
C28_PointsKeptInputsUntouched ==
  (args.fn = "processSegments" /\ ret.called) =>
    LET segments == args.segments
        n == Len(segments)
        out == ret.value
        k == Len(out.segments)
        content(j) == out.arrays[out.objs[out.segments[j]]]
    IN  /\ \E cut \in [0..k -> 0..n] :
              /\ cut[0] = 0
              /\ cut[k] = n
              /\ \A j \in 1..k :
                    /\ cut[j - 1] < cut[j]
                    /\ content(j) = run(segments, cut[j - 1] + 1, cut[j])
        /\ \A i \in 1..n :
              /\ out.objs[i] = i
              /\ out.arrays[i] = segments[i].points

\* C28 witness: of three segments the first two were merged, the third was
\* split off, and each of them holds a point
C28_Witness ==
  /\ args.fn = "processSegments"
  /\ ret.called
  /\ Len(args.segments) = 3
  /\ \A i \in 1..3 : Len(args.segments[i].points) = 1
  /\ Len(ret.value.segments) = 2
  /\ ret.value.gaps[1].shouldMerge
  /\ ~ret.value.gaps[2].shouldMerge
  /\ ret.value.arrays[ret.value.objs[ret.value.segments[1]]]
       = args.segments[1].points \o args.segments[2].points

\* processSegments on objects returns the segments and gap records that the
\* function processSegments of the model returns
ObjectsAgreeWithFunction ==
  (args.fn = "processSegments" /\ ret.called) =>
    /\ [j \in 1..Len(ret.value.segments) |->
          deref(ret.value.objs, ret.value.arrays, ret.value.segments[j])]
         = processSegments(args.segments, args.options).segments
    /\ ret.value.gaps = processSegments(args.segments, args.options).gaps

(***************************************************************************)
(* parsers/metadata.ts: duration and moving time.                          *)
(*                                                                         *)
(* A point's time is its Date in milliseconds; a point without a timestamp *)
(* has no time field.                                                      *)
(***************************************************************************)
\* timestamps 1.5 s, 100 s, 120 s and 121.5 s apart
TimesMs == {0, 1500, 100000, 121500}

TimedPoints ==
  {[lon |-> 0, lat |-> 0, ele |-> 0]}
    \cup {[lon |-> 0, lat |-> 0, ele |-> 0, time |-> t] : t \in TimesMs}

\* the tracks of one or two segments with up to MaxTrackPoints points, with
\* timestamps in any order
TimedTracks ==
  LET pointSeqs == UNION {[1..n -> TimedPoints] : n \in 0..MaxTrackPoints}
  IN  {[name |-> "t", segments |-> segmentsOf(x[1], x[2])] :
         x \in {y \in pointSeqs \X (0..(MaxTrackPoints + 1)) : y[2] <= Len(y[1]) + 1}}

InitTimes ==
  /\ ManifestIdle
  /\ WatchIdle
  /\ ret = NotCalled
  /\ loop = NoLoop
  /\ args \in [fn : {"calculateMetadata"}, track : TimedTracks]

NextTimes == CallCalculateMetadata

SpecTimes == InitTimes /\ [][NextTimes]_vars

\* C29: for every track calculateMetadata reports movingTime <= duration,
\* also when points lack a timestamp, when timestamps are not in increasing
\* order and when the points span several segments.
C29_MovingTimeWithinDuration ==
  (args.fn = "calculateMetadata" /\ ret.called) =>
    ret.value.movingTime <= ret.value.duration

\* the timestamps of a track's points, in order, are all there
allTimed(track) ==
  \A i \in 1..Len(track.segments) :
    \A j \in 1..Len(track.segments[i].points) : timed(track.segments[i].points[j])

\* movingTime <= duration holds for the tracks all of whose points carry a
\* timestamp, in whatever order
MovingTimeWithinDurationWhenAllTimed ==
  (args.fn = "calculateMetadata" /\ ret.called /\ allTimed(args.track)) =>
    ret.value.movingTime <= ret.value.duration

(***************************************************************************)
(* parsers/gpx.ts: parseGPX.                                               *)
(*                                                                         *)
(* A document is the list of its <trk> elements, a track the list of its   *)
(* <trkseg>, a segment the list of its <trkpt>.  The g-th track point of   *)
(* the document has latitude g and timestamp g, and its extensions, when   *)
(* it has any, are g too, so that a point of the output shows which source *)
(* point each of its fields came from.  The GeoJSON conversion of the      *)
(* library is taken to yield one feature per track: a LineString for a     *)
(* track of one segment, a MultiLineString with one sub-path per segment   *)
(* otherwise, with the timestamps in coordinateProperties.times.           *)
(***************************************************************************)
\* largest number of tracks of a document
MaxTracks == 2
\* largest number of segments of a track
MaxTrackSegments == 2
\* largest number of points of a segment
MaxSegmentPoints == 2

\* the sum of a sequence of numbers
RECURSIVE sum(_)
sum(seq) == IF seq = <<>> THEN 0 ELSE seq[1] + sum(Tail(seq))

\* the sequences of a list of sequences, one after the other
RECURSIVE flat(_)
flat(seqs) == IF seqs = <<>> THEN <<>> ELSE seqs[1] \o flat(Tail(seqs))

\* the g-th <trkpt> of a document; the point numbered without has no
\* <extensions>
GPXTrackPoint(g, without) ==
  IF g = without THEN [lat |-> g, lon |-> 0, ele |-> 0, time |-> g]
  ELSE [lat |-> g, lon |-> 0, ele |-> 0, time |-> g, extensions |-> [heartRate |-> g]]

\* the document whose track t has segments of shape[t][s] points
GPXDocument(shape, without) ==
  LET before(t, s) ==
        sum([u \in 1..(t - 1) |-> sum(shape[u])]) + sum(SubSeq(shape[t], 1, s - 1))
  IN  [trk |-> [t \in 1..Len(shape) |->
         [name |-> "n",
          trkseg |-> [s \in 1..Len(shape[t]) |->
             [trkpt |-> [i \in 1..shape[t][s] |->
                           GPXTrackPoint(before(t, s) + i, without)]]]]]]

\* the documents of up to nTracks tracks, all of whose points but at most
\* one have extensions
GPXDocuments(nTracks) ==
  LET trackShapes == UNION {[1..n -> 1..MaxSegmentPoints] : n \in 1..MaxTrackSegments}
      shapes == UNION {[1..n -> trackShapes] : n \in 1..nTracks}
  IN  UNION {{GPXDocument(shape, without) :
                without \in 0..sum([t \in 1..Len(shape) |-> sum(shape[t])])} :
              shape \in shapes}

\* gpx(doc): the GeoJSON features of the document
gpx(doc) ==
  LET coordinates(seg) == [i \in 1..Len(seg.trkpt) |->
                             <<seg.trkpt[i].lon, seg.trkpt[i].lat, seg.trkpt[i].ele>>]
      times(seg) == [i \in 1..Len(seg.trkpt) |-> seg.trkpt[i].time]
  IN  [t \in 1..Len(doc.trk) |->
         LET trkseg == doc.trk[t].trkseg
         IN  IF Len(trkseg) = 1
               THEN [type |-> "LineString", coordinates |-> coordinates(trkseg[1]),
                     times |-> times(trkseg[1])]
               ELSE [type |-> "MultiLineString",
                     coordinates |-> [s \in 1..Len(trkseg) |-> coordinates(trkseg[s])],
                     times |-> [s \in 1..Len(trkseg) |-> times(trkseg[s])]]]

\* buildExtensionMap: point index (from 0) within the track -> extensions
buildExtensionMap(track) ==
  LET points == flat([s \in 1..Len(track.trkseg) |-> track.trkseg[s].trkpt])
  IN  [index \in {j - 1 : j \in {k \in 1..Len(points) : "extensions" \in DOMAIN points[k]}}
         |-> points[index + 1].extensions]

\* processLineString; times = <<>> stands for undefined
processLineString(coordinates, times, extensionMap, startIndex) ==
  [points |-> [i \in 1..Len(coordinates) |->
     LET coord == coordinates[i]
         point == [lon |-> coord[1], lat |-> coord[2], ele |-> coord[3]]
         withTime == IF i \in DOMAIN times THEN point @@ [time |-> times[i]] ELSE point
     IN  IF (startIndex + i - 1) \in DOMAIN extensionMap
           THEN withTime @@ [extensions |-> extensionMap[startIndex + i - 1]]
           ELSE withTime]]

\* times?.[segmentIndex], for an index counted from 0
timesAt(times, segmentIndex) ==
  IF (segmentIndex + 1) \in DOMAIN times THEN times[segmentIndex + 1] ELSE <<>>

\* lines 139-157: the loop over the sub-paths of a MultiLineString
RECURSIVE forCoords(_, _, _, _, _)
forCoords(feature, c, extensionMap, segments, segmentOffset) ==
  IF c > Len(feature.coordinates)
    THEN [segments |-> segments, totalPoints |-> segmentOffset]
  ELSE LET segmentIndex == Len(segments)
           segment == processLineString(feature.coordinates[c],
                                        timesAt(feature.times, segmentIndex),
                                        extensionMap, segmentOffset)
       IN  IF Len(segment.points) > 0
             THEN forCoords(feature, c + 1, extensionMap, Append(segments, segment),
                            segmentOffset + Len(segment.points))
             ELSE forCoords(feature, c + 1, extensionMap, segments, segmentOffset)

\* lines 119-159: the loop over the features
RECURSIVE forFeatures(_, _, _, _, _)
forFeatures(features, f, extensionMap, segments, totalPoints) ==
  IF f > Len(features) THEN [segments |-> segments, totalPoints |-> totalPoints]
  ELSE LET feature == features[f]
       IN  IF feature.type = "LineString"
             THEN LET segment == processLineString(feature.coordinates, feature.times,
                                                   extensionMap, totalPoints)
                  IN  IF Len(segment.points) > 0
                        THEN forFeatures(features, f + 1, extensionMap,
                                         Append(segments, segment),
                                         totalPoints + Len(segment.points))
                        ELSE forFeatures(features, f + 1, extensionMap, segments,
                                         totalPoints)
             ELSE LET r == forCoords(feature, 1, extensionMap, segments, totalPoints)
                  IN  forFeatures(features, f + 1, extensionMap, r.segments,
                                  r.totalPoints)

\* parseGPX, for a document that parses and has a track with points
parseGPX(doc) ==
  LET firstTrack == doc.trk[1]
      extensionMap == buildExtensionMap(firstTrack)
      r == forFeatures(gpx(doc), 1, extensionMap, <<>>, 0)
  IN  [track |-> [name |-> firstTrack.name, segments |-> r.segments],
       warnings |-> <<>>]

InitParse ==
  /\ ManifestIdle
  /\ WatchIdle
  /\ ret = NotCalled
  /\ loop = NoLoop
  /\ args \in [fn : {"parseGPX"}, content : GPXDocuments(MaxTracks)]

CallParseGPX ==
  /\ args.fn = "parseGPX"
  /\ ret = NotCalled
  /\ ret' = Value(parseGPX(args.content))
  /\ UNCHANGED <<args, loop, manifestVars, watchVars>>

NextParse == CallParseGPX

SpecParse == InitParse /\ [][NextParse]_vars

\* the <trkseg> elements of a document, in document order
sourceSegments(doc) == flat([t \in 1..Len(doc.trk) |-> doc.trk[t].trkseg])

\* the output point has the data of the source point
paired(point, source) ==
  /\ point.lat = source.lat
  /\ "time" \in DOMAIN point
  /\ point.time = source.time
  /\ ("extensions" \in DOMAIN point) = ("extensions" \in DOMAIN source)
  /\ "extensions" \in DOMAIN source => point.extensions = source.extensions

\* C30: parseGPX returns one segment per sub-path, in order, and every point
\* of it has the coordinates, the timestamp and the extensions of its own
\* source track point, whatever the number of tracks of the document.
C30_PointsPairedWithOwnData ==
  (args.fn = "parseGPX" /\ ret.called) =>
    LET source == sourceSegments(args.content)
        segments == ret.value.track.segments
    IN  /\ Len(segments) = Len(source)
        /\ \A k \in 1..Len(source) :
              /\ Len(segments[k].points) = Len(source[k].trkpt)
              /\ \A i \in 1..Len(source[k].trkpt) :
                    paired(segments[k].points[i], source[k].trkpt[i])

\* the points of a document of one track are paired with their own data
OneTrackPairedWithOwnData ==
  (args.fn = "parseGPX" /\ ret.called /\ Len(args.content.trk) = 1) =>
    LET source == sourceSegments(args.content)
        segments == ret.value.track.segments
    IN  /\ Len(segments) = Len(source)
        /\ \A k \in 1..Len(source) :
              /\ Len(segments[k].points) = Len(source[k].trkpt)
              /\ \A i \in 1..Len(source[k].trkpt) :
                    paired(segments[k].points[i], source[k].trkpt[i])

====
